---- MODULE Spec2Model ----
(***************************************************************************)
(* A model of the godb query engine (internal/database): the catalog       *)
(* db.Tables, its tables and rows as Go references, the RWMutex db.mu, the  *)
(* gob snapshot, and the handlers CreateTable, DropTable, Insert, Delete,  *)
(* Update and Select stepped at their shared-memory accesses.              *)
(*                                                                         *)
(* Go strings are sequences of one-character strings, so that Split, Trim, *)
(* Fields and the operator search of evaluateWhere work as in the code.    *)
(***************************************************************************)
EXTENDS Integers, Sequences, FiniteSets, TLC

(***************************************************************************)
(* Bounds of the model.                                                    *)
(***************************************************************************)
\* goroutines calling Execute in the concurrent specification
NumThreads == 2
\* Execute calls in the sequential specification
MaxCalls == 2
\* Row objects allocated by Insert (make(Row)) during one behaviour
MaxNewRows == 2
\* Table objects in one behaviour, loaded by NewDatabase or made by CreateTable
MaxTables == 2
\* Snapshot failures (os.Create or Encode returning an error) in one behaviour
MaxIOFailures == 1

(***************************************************************************)
(* strings: the functions of Go's strings package the handlers use.  Go    *)
(* evaluates the argument of a call once, before the call, and so does a   *)
(* function on strings applied to the argument.                            *)
(***************************************************************************)
Min(a, b) == IF a < b THEN a ELSE b

Max(a, b) == IF a < b THEN b ELSE a

\* s[i..j] (1-based, inclusive), the empty string when i > j
Sub(s, i, j) == SubSeq(s, i, j)

HasPrefixAt(s, sub, i) ==
    /\ i + Len(sub) - 1 <= Len(s)
    /\ \A k \in 1..Len(sub) : s[i + k - 1] = sub[k]

\* strings.Index, 1-based; 0 when sub does not occur (Go: -1)
Index(s, sub) ==
    LET index[str \in Seq(STRING)] ==
            LET hits == {i \in 1..(Len(str) + 1) : HasPrefixAt(str, sub, i)}
            IN  IF hits = {} THEN 0 ELSE CHOOSE i \in hits : \A j \in hits : i <= j
    IN  index[s]

Contains(s, sub) == Index(s, sub) # 0

\* strings.Split(s, sep) for a non-empty separator: piecesFrom[from] is the
\* pieces of s from position from on
Split(s, sep) ==
    LET split[str \in Seq(STRING)] ==
            LET piecesFrom[from \in 1..(Len(str) + 1)] ==
                    LET hits == {i \in from..(Len(str) + 1) : HasPrefixAt(str, sep, i)}
                        next == IF hits = {} THEN 0
                                ELSE CHOOSE i \in hits : \A j \in hits : i <= j
                    IN  IF next = 0 THEN <<Sub(str, from, Len(str))>>
                        ELSE <<Sub(str, from, next - 1)>> \o piecesFrom[next + Len(sep)]
            IN  piecesFrom[1]
    IN  split[s]

\* strings.SplitN(s, sep, 2)
SplitN2(s, sep) ==
    LET splitN[str \in Seq(STRING)] ==
            LET i == Index(str, sep)
            IN  IF i = 0 THEN <<str>>
                ELSE <<Sub(str, 1, i - 1), Sub(str, i + Len(sep), Len(str))>>
    IN  splitN[s]

\* strings.Trim(s, cutset): cutset is a set of characters
Trim(s, cutset) ==
    LET trim[str \in Seq(STRING)] ==
            LET keep == {i \in 1..Len(str) : str[i] \notin cutset}
            IN  IF keep = {} THEN <<>>
                ELSE Sub(str, CHOOSE i \in keep : \A j \in keep : i <= j,
                              CHOOSE i \in keep : \A j \in keep : j <= i)
    IN  trim[s]

WhiteSpace == {" ", "\t", "\n", "\r"}

TrimSpace(s) == Trim(s, WhiteSpace)

Quotes == {"'", "\""}

\* strings.TrimPrefix
TrimPrefix(s, p) ==
    LET trimPrefix[str \in Seq(STRING)] ==
            IF HasPrefixAt(str, p, 1) THEN Sub(str, Len(p) + 1, Len(str)) ELSE str
    IN  trimPrefix[s]

\* strings.Fields: the maximal runs of non-space characters; fieldsFrom[from]
\* is those of s from position from on
Fields(s) ==
    LET fields[str \in Seq(STRING)] ==
            LET fieldsFrom[from \in 1..(Len(str) + 1)] ==
                    LET ink == {i \in from..Len(str) : str[i] \notin WhiteSpace}
                        start == IF ink = {} THEN 0
                                 ELSE CHOOSE i \in ink : \A j \in ink : i <= j
                        sp == {i \in start..Len(str) : str[i] \in WhiteSpace}
                        end == IF sp = {} THEN Len(str) + 1
                               ELSE CHOOSE i \in sp : \A j \in sp : i <= j
                    IN  IF start = 0 THEN <<>>
                        ELSE <<Sub(str, start, end - 1)>> \o fieldsFrom[end]
            IN  fieldsFrom[1]
    IN  fields[s]

Lower == <<"a","b","c","d","e","f","g","h","i","j","k","l","m",
           "n","o","p","q","r","s","t","u","v","w","x","y","z">>

Upper == <<"A","B","C","D","E","F","G","H","I","J","K","L","M",
           "N","O","P","Q","R","S","T","U","V","W","X","Y","Z">>

UpperChar(c) ==
    LET at == {i \in 1..Len(Lower) : Lower[i] = c}
    IN  IF at = {} THEN c ELSE Upper[CHOOSE i \in at : TRUE]

\* strings.ToUpper
ToUpper(s) ==
    LET toUpper[str \in Seq(STRING)] == [i \in 1..Len(str) |-> UpperChar(str[i])]
    IN  toUpper[s]

\* The characters of the model in byte order, for Go's < on strings
ByteOrder == <<" ", "\"", "'", "(", ")", ",", "-", ".",
               "0","1","2","3","4","5","6","7","8","9", "<", "=", ">">>
             \o Upper \o <<"_">> \o Lower

Byte(c) == CHOOSE i \in 1..Len(ByteOrder) : ByteOrder[i] = c

\* Go's s < t on strings: byte-lexicographic
StrLess(s, t) ==
    \E i \in 1..(Len(t)) :
        /\ \A k \in 1..(i - 1) : k <= Len(s) /\ s[k] = t[k]
        /\ \/ i = Len(s) + 1
           \/ i <= Len(s) /\ Byte(s[i]) < Byte(t[i])

Digits == <<"0","1","2","3","4","5","6","7","8","9">>

IsDigit(c) == \E i \in 1..Len(Digits) : Digits[i] = c

DigitVal(c) == (CHOOSE i \in 1..Len(Digits) : Digits[i] = c) - 1

(***************************************************************************)
(* Values of a Row (map[string]any): a dynamic type tag and the value.     *)
(***************************************************************************)
Int64(n) == [t |-> "int64", v |-> n]

Str(s) == [t |-> "string", v |-> s]

\* A (value, error) result
Ok(v) == [ok |-> TRUE, v |-> v]

Err(e) == [ok |-> FALSE, e |-> e]

RECURSIVE NatText(_)
NatText(n) ==
    IF n < 10 THEN <<Digits[n + 1]>> ELSE NatText(n \div 10) \o <<Digits[(n % 10) + 1]>>

\* fmt.Sprint of a row value
Sprint(val) ==
    IF val.t = "int64"
    THEN IF val.v < 0 THEN <<"-">> \o NatText(-val.v) ELSE NatText(val.v)
    ELSE val.v

\* The number of leading digits of s
LeadingDigits(s) ==
    LET non == {i \in 1..Len(s) : ~IsDigit(s[i])}
    IN  IF non = {} THEN Len(s) ELSE (CHOOSE i \in non : \A j \in non : i <= j) - 1

RECURSIVE DigitsVal(_)
DigitsVal(s) ==
    IF s = <<>> THEN 0 ELSE 10 * DigitsVal(Sub(s, 1, Len(s) - 1)) + DigitVal(s[Len(s)])

\* fmt.Sscanf(val, "%d", &num): an optional sign, then the leading run of digits;
\* what follows the digits is left unread and is no error
ScanInt(val) ==
    LET scan[str \in Seq(STRING)] ==
            LET signed == str # <<>> /\ str[1] \in {"+", "-"}
                body == IF signed THEN Sub(str, 2, Len(str)) ELSE str
                n == LeadingDigits(body)
                mag == DigitsVal(Sub(body, 1, n))
            IN  IF n = 0 THEN Err("expected integer")
                ELSE Ok(IF signed /\ str[1] = "-" THEN -mag ELSE mag)
    IN  scan[val]

\* strconv.ParseFloat(valStr, 64) on the literals of the model: an optional sign
\* and digits only; the whole string must be the number
ParseFloat(valStr) ==
    LET signed == valStr # <<>> /\ valStr[1] \in {"+", "-"}
        body == IF signed THEN Sub(valStr, 2, Len(valStr)) ELSE valStr
    IN  IF body # <<>> /\ LeadingDigits(body) = Len(body)
        THEN Ok(IF signed /\ valStr[1] = "-" THEN -DigitsVal(body) ELSE DigitsVal(body))
        ELSE Err("invalid syntax")

(***************************************************************************)
(* Column types and constraints (column.go).                               *)
(***************************************************************************)
COLUMN_TYPE_INT == <<"I","N","T">>

COLUMN_TYPE_DOUBLE == <<"D","O","U","B","L","E">>

COLUMN_TYPE_FLOAT == <<"F","L","O","A","T">>

COLUMN_TYPE_VARCHAR == <<"V","A","R","C","H","A","R">>

COLUMN_TYPE_BOOL == <<"B","O","O","L">>

COLUMN_TYPE_DATE == <<"D","A","T","E">>

COLUMN_TYPE_ENUM == <<"E","N","U","M">>

COLUMN_CONSTRAINT_NULL == <<"N","U","L","L">>

COLUMN_CONSTRAINT_NOT_NULL == <<"N","O","T"," ","N","U","L","L">>

COLUMN_CONSTRAINT_UNIQUE == <<"U","N","I","Q","U","E">>

COLUMN_CONSTRAINT_PRIMARY_KEY == <<"P","R","I","M","A","R","Y"," ","K","E","Y">>

COLUMN_CONSTRAINT_FOREIGN_KEY == <<"F","O","R","E","I","G","N"," ","K","E","Y">>

COLUMN_CONSTRAINT_AUTO_INCREMENT ==
    <<"A","U","T","O","_","I","N","C","R","E","M","E","N","T">>

isValidColumnType(t) ==
    t \in {COLUMN_TYPE_INT, COLUMN_TYPE_VARCHAR, COLUMN_TYPE_DOUBLE, COLUMN_TYPE_FLOAT,
           COLUMN_TYPE_BOOL, COLUMN_TYPE_DATE, COLUMN_TYPE_ENUM}

isValidColumnConstraint(c) ==
    c \in {COLUMN_CONSTRAINT_NULL, COLUMN_CONSTRAINT_NOT_NULL,
           COLUMN_CONSTRAINT_AUTO_INCREMENT, COLUMN_CONSTRAINT_FOREIGN_KEY,
           COLUMN_CONSTRAINT_PRIMARY_KEY, COLUMN_CONSTRAINT_UNIQUE}

\* The zero Column of `column := &Column{}`
ZeroColumn ==
    [Name |-> <<>>, Type |-> <<>>, Constraints |-> <<>>,
     ReferenceTable |-> <<>>, ReferenceColumn |-> <<>>]

KW_NOT == <<"N","O","T">>

KW_PRIMARY == <<"P","R","I","M","A","R","Y">>

KW_KEY == <<"K","E","Y">>

KW_FOREIGN == <<"F","O","R","E","I","G","N">>

KW_REFERENCES == <<"R","E","F","E","R","E","N","C","E","S">>

\* Column.parseConstraints: the loop from index i on, c the column so far
RECURSIVE parseConstraintsFrom(_, _, _)
parseConstraintsFrom(c, parts, i) ==
    IF i > Len(parts) THEN Ok(c)
    ELSE
    LET constraint == ToUpper(parts[i])
    IN  IF constraint = KW_NOT /\ i + 1 <= Len(parts) /\ parts[i + 1] = COLUMN_CONSTRAINT_NULL
        THEN parseConstraintsFrom(
                 [c EXCEPT !.Constraints = Append(@, COLUMN_CONSTRAINT_NOT_NULL)], parts, i + 2)
        ELSE IF constraint = KW_PRIMARY /\ i + 1 <= Len(parts) /\ parts[i + 1] = KW_KEY
        THEN parseConstraintsFrom(
                 [c EXCEPT !.Constraints = Append(@, COLUMN_CONSTRAINT_PRIMARY_KEY)], parts, i + 2)
        ELSE IF /\ constraint = KW_FOREIGN
                /\ i + 3 <= Len(parts)
                /\ ToUpper(parts[i + 1]) = KW_KEY
                /\ ToUpper(parts[i + 2]) = KW_REFERENCES
        THEN LET ref == parts[i + 3]
                 open == Index(ref, <<"(">>)
                 close == Index(ref, <<")">>)
             IN  IF open = 0 \/ close = 0 \/ close <= open + 1
                 THEN Err("invalid foreign key reference")
                 ELSE parseConstraintsFrom(
                          [c EXCEPT !.Constraints = Append(@, COLUMN_CONSTRAINT_FOREIGN_KEY),
                                    !.ReferenceTable = Sub(ref, 1, open - 1),
                                    !.ReferenceColumn = Sub(ref, open + 1, close - 1)],
                          parts, i + 4)
        ELSE IF ~isValidColumnConstraint(constraint)
        THEN Err("invalid constraint")
        ELSE parseConstraintsFrom(
                 [c EXCEPT !.Constraints = Append(@, constraint)], parts, i + 1)

parseConstraints(c, parts) == parseConstraintsFrom(c, parts, 1)

\* Column.parseColumnDef
parseColumnDef(columnDef) ==
    LET column[parts \in Seq(Seq(STRING))] ==
            IF Len(parts) < 2 THEN Err("invalid column definition")
            ELSE LET colType == ToUpper(parts[2])
                 IN  IF ~isValidColumnType(colType) THEN Err("invalid column type")
                     ELSE LET r == parseConstraints(ZeroColumn, Sub(parts, 3, Len(parts)))
                          IN  IF ~r.ok THEN r
                              ELSE Ok([r.v EXCEPT !.Name = parts[1], !.Type = colType])
    IN  column[Fields(TrimSpace(columnDef))]

\* Column.HasConstraint
HasConstraint(c, constraint) ==
    \E i \in 1..Len(c.Constraints) : c.Constraints[i] = constraint

(***************************************************************************)
(* Type conversion and the WHERE predicate (Database.columnTypeConversion, *)
(* Database.evaluateWhere, compareValues, convertToNumbers).               *)
(***************************************************************************)
\* columnTypeConversion for the column types of the model's schemas: INT,
\* VARCHAR and the default branch (ENUM, and the empty type of an unknown column)
columnTypeConversion(colType, val) ==
    IF colType = COLUMN_TYPE_INT
    THEN LET r == ScanInt(val)
         IN  IF r.ok THEN Ok(Int64(r.v)) ELSE Err("invalid integer value for column type")
    ELSE IF colType = COLUMN_TYPE_VARCHAR
    THEN Ok(Str(Trim(val, Quotes)))
    ELSE Ok(Str(val))

\* convertToNumbers: both as float64, or an error
convertToNumbers(rowVal, valStr) ==
    IF rowVal.t # "int64" THEN Err("not a number")
    ELSE LET r == ParseFloat(valStr)
         IN  IF r.ok THEN Ok(<<rowVal.v, r.v>>) ELSE r

\* compareValues: -1, 0 or 1
compareValues(rowVal, valStr) ==
    LET n == convertToNumbers(rowVal, valStr)
        rowStr == Sprint(rowVal)
    IN  IF n.ok
        THEN IF n.v[1] = n.v[2] THEN 0 ELSE IF n.v[1] < n.v[2] THEN -1 ELSE 1
        ELSE IF rowStr = valStr THEN 0 ELSE IF StrLess(rowStr, valStr) THEN -1 ELSE 1

OP_LE == <<"<", "=">>

OP_GE == <<">", "=">>

OP_NE == <<"!", "=">>

OP_EQ == <<"=">>

OP_LT == <<"<">>

OP_GT == <<">">>

OP_LIKE == <<"L","I","K","E">>

\* evaluateWhere's list of operators, in the order it tries them
operators == <<OP_LE, OP_GE, OP_NE, OP_EQ, OP_LT, OP_GT, OP_LIKE>>

\* A Row is a function from the column names it holds to values
HasKey(row, col) == col \in DOMAIN row

\* Database.evaluateWhere
evaluateWhere(row, whereClause) ==
    IF whereClause = <<>> THEN TRUE
    ELSE
    \E found \in {{i \in 1..Len(operators) : Contains(whereClause, operators[i])}} :
        IF found = {} THEN FALSE
        ELSE
        \E op \in {operators[CHOOSE i \in found : \A j \in found : i <= j]} :
        \E parts \in {SplitN2(whereClause, op)} :
        \E col \in {TrimSpace(parts[1])}, val \in {Trim(TrimSpace(parts[2]), Quotes)} :
            IF ~HasKey(row, col) THEN FALSE
            ELSE
            \E rowVal \in {row[col]} :
            \E rowStr \in {Sprint(rowVal)} :
                CASE op = OP_EQ -> rowStr = val
                  [] op = OP_NE -> rowStr # val
                  [] op = OP_LT -> compareValues(rowVal, val) < 0
                  [] op = OP_GT -> compareValues(rowVal, val) > 0
                  [] op = OP_LE -> compareValues(rowVal, val) <= 0
                  [] op = OP_GE -> compareValues(rowVal, val) >= 0
                  [] op = OP_LIKE -> Contains(rowStr, val)

(***************************************************************************)
(* The state.  *Table and Row are Go references: db.Tables maps a name to  *)
(* a table object, a table's Rows is a slice of row objects, and a handler *)
(* that has read a table pointer or ranged over a slice keeps using that   *)
(* object whatever the catalog becomes.                                    *)
(***************************************************************************)
VARIABLES
    Tables,     \* db.Tables: a function from the names present to table objects
    tableObj,   \* the *Table objects: a sequence, a pointer is an index
    rowObj,     \* the Row maps: a sequence, a reference is an index
    mu,         \* db.mu: the writer (0: none) and the set of readers
    disk,       \* the file db.Name + ".gob"
    pc,         \* per goroutine: where its Execute call stands
    call,       \* per goroutine: the statement of its current or last call
    loc,        \* per goroutine: the locals of the handler
    ret,        \* per goroutine: what its last Execute call returned
    panicked,   \* an index-out-of-range panic ended the process
    ioFails,    \* snapshot failures so far
    newRows,    \* rows made by Insert so far
    calls,      \* Execute calls begun so far (sequential use)
    sequential, \* whether Execute is called from one goroutine, call after call
    pre,        \* history: the catalog when the current call began (sequential
                \* use); in concurrent use the catalog NewDatabase loaded
    fresh,      \* history: the table objects made by CREATE with an
                \* auto-increment primary key that saw only INSERTs omitting it
    cmp,        \* evaluateWhere called on its own: a row value, a literal, the
                \* operators tried so far and those it returned true for
    kw,         \* a parser called on its own: the words of a text, the keywords
                \* whose case is changed, and what it returned for the text as
                \* written and for the text with the case changed
    view        \* the map the last AllTables call returned, a reference, and
                \* history: what that map held when the call returned

vars == <<Tables, tableObj, rowObj, mu, disk, pc, call, loc, ret, panicked,
          ioFails, newRows, calls, sequential, pre, fresh, cmp, kw, view>>

Threads == 1..NumThreads

\* The goroutine of sequential use
MainThread == 1

NoThread == 0

(***************************************************************************)
(* Table (table.go of the repository; its source is not part of src/, so   *)
(* newTable, addColumn, addRow, columnExists and GetColumn follow section  *)
(* 4.3 of the specification).                                              *)
(***************************************************************************)
newTable(name) == [Name |-> name, Columns |-> <<>>, Rows |-> <<>>, PrimaryKey |-> <<>>]

addColumn(table, column) ==
    [table EXCEPT !.Columns = Append(@, column),
                  !.PrimaryKey = IF HasConstraint(column, COLUMN_CONSTRAINT_PRIMARY_KEY)
                                 THEN column.Name ELSE @]

\* Whether the primary key of the table is an AUTO_INCREMENT column
AutoKeyed(table) ==
    \E i \in 1..Len(table.Columns) :
        /\ table.Columns[i].Name = table.PrimaryKey
        /\ HasConstraint(table.Columns[i], COLUMN_CONSTRAINT_AUTO_INCREMENT)

\* The rows a slice of row references holds
RowsOf(slice) == [i \in 1..Len(slice) |-> rowObj[slice[i]]]

\* max(existing integer values in the column, defaulting to 0)
MaxInt(rows, col) ==
    LET vals == {rows[i][col].v : i \in {j \in 1..Len(rows) :
                     HasKey(rows[j], col) /\ rows[j][col].t = "int64"}}
    IN  IF vals = {} THEN 0
        ELSE Max(0, CHOOSE m \in vals : \A n \in vals : n <= m)

\* addRow step 1: fill every AUTO_INCREMENT column the row lacks
RECURSIVE AutoFill(_, _, _, _)
AutoFill(columns, rows, row, i) ==
    IF i > Len(columns) THEN row
    ELSE LET c == columns[i]
         IN  IF HasConstraint(c, COLUMN_CONSTRAINT_AUTO_INCREMENT) /\ ~HasKey(row, c.Name)
             THEN AutoFill(columns, rows,
                           (c.Name :> Int64(MaxInt(rows, c.Name) + 1)) @@ row, i + 1)
             ELSE AutoFill(columns, rows, row, i + 1)

HoldsValue(rows, col, val) ==
    \E i \in 1..Len(rows) : HasKey(rows[i], col) /\ rows[i][col] = val

\* addRow steps 1 to 4 on the rows the table holds: the row to append, or the
\* constraint error
addRowCheck(table, rows, row0) ==
    LET row == AutoFill(table.Columns, rows, row0, 1)
        pk == table.PrimaryKey
        uniq == {i \in 1..Len(table.Columns) :
                    HasConstraint(table.Columns[i], COLUMN_CONSTRAINT_UNIQUE)}
    IN  IF pk # <<>> /\ ~HasKey(row, pk)
        THEN Err("primary key column not provided")
        ELSE IF pk # <<>> /\ HoldsValue(rows, pk, row[pk])
        THEN Err("primary key value already exists")
        ELSE IF \E i \in uniq : /\ HasKey(row, table.Columns[i].Name)
                                /\ HoldsValue(rows, table.Columns[i].Name,
                                              row[table.Columns[i].Name])
        THEN Err("unique constraint violation")
        ELSE Ok(row)

(***************************************************************************)
(* Persistence: gob writes the Database by value, so the file holds the    *)
(* tables and rows the pointers lead to, keyed by name.                    *)
(***************************************************************************)
derefTable(tid) ==
    [Name |-> tableObj[tid].Name,
     Columns |-> tableObj[tid].Columns,
     PrimaryKey |-> tableObj[tid].PrimaryKey,
     Rows |-> RowsOf(tableObj[tid].Rows)]

\* gob.NewEncoder(file).Encode(db)
gobEncode == [n \in DOMAIN Tables |-> derefTable(Tables[n])]

NoFile == [st |-> "absent", db |-> <<>>]

\* os.Create truncates the file; this is what is left when Encode fails
PartialFile == [st |-> "partial", db |-> <<>>]

GoodFile(db) == [st |-> "ok", db |-> db]

\* The catalog in memory, by value
Catalog == gobEncode

(***************************************************************************)
(* The statements Execute is called with, as the groups its regular        *)
(* expressions capture (Database.Execute).                                 *)
(***************************************************************************)
TblUsers == <<"u">>

TblPosts == <<"p">>

ColId == <<"i","d">>

ColNm == <<"n","m">>

\* "id INT, nm VARCHAR"
DefsPlain == <<"i","d"," ","I","N","T",","," ","n","m"," ","V","A","R","C","H","A","R">>

\* "id INT PRIMARY KEY AUTO_INCREMENT, nm VARCHAR UNIQUE"
DefsKeyed == <<"i","d"," ","I","N","T"," ","P","R","I","M","A","R","Y"," ","K","E","Y"," ","A","U","T","O","_","I","N","C","R","E","M","E","N","T",","," ","n","m"," ","V","A","R","C","H","A","R"," ","U","N","I","Q","U","E">>

\* "id INT, uid INT FOREIGN KEY REFERENCES u(id)"
DefsPosts == <<"i","d"," ","I","N","T",","," ","u","i","d"," ","I","N","T"," ","F","O","R","E","I","G","N"," ","K","E","Y"," ","R","E","F","E","R","E","N","C","E","S"," ","u","(","i","d",")">>

\* "id"
DefsBad == <<"i","d">>

\* "id INT PRIMARY KEY, nm INT PRIMARY KEY"
DefsTwoKeys == <<"i","d"," ","I","N","T"," ","P","R","I","M","A","R","Y"," ","K","E","Y",","," ","n","m"," ","I","N","T"," ","P","R","I","M","A","R","Y"," ","K","E","Y">>

\* "id INT, uid INT FOREIGN KEY REFERENCES (id)"
DefsNoRefTable == <<"i","d"," ","I","N","T",","," ","u","i","d"," ","I","N","T"," ","F","O","R","E","I","G","N"," ","K","E","Y"," ","R","E","F","E","R","E","N","C","E","S"," ","(","i","d",")">>

CreateStmts ==
    {[kind |-> "CREATE", name |-> TblUsers, defs |-> d] : d \in {DefsPlain, DefsKeyed, DefsBad, DefsTwoKeys}}
    \cup {[kind |-> "CREATE", name |-> TblPosts, defs |-> d] : d \in {DefsPosts, DefsNoRefTable}}

DropStmts == {[kind |-> "DROP", name |-> TblUsers]}

\* (column list, value list); the empty column list is a statement without one
InsertLists ==
    { <<<<"i","d",","," ","n","m">>, <<"1",","," ","'","a","'">>>>,     \* (id, nm) VALUES (1, 'a')
      <<<<"i","d",","," ","n","m">>, <<"3",","," ","'","c","'">>>>,     \* (id, nm) VALUES (3, 'c')
      <<<<"n","m">>, <<"'","c","'">>>>,      \* (nm) VALUES ('c')
      <<<<"n","m">>, <<"'","d","'">>>>,      \* (nm) VALUES ('d')
      <<<<"i","d",","," ","n","m">>, <<"x",","," ","'","c","'">>>>,     \* (id, nm) VALUES (x, 'c')
      <<<<>>, <<"3",","," ","'","c","'">>>> }    \* VALUES (3, 'c')

InsertStmts ==
    {[kind |-> "INSERT", name |-> TblUsers, cols |-> l[1], vals |-> l[2]] : l \in InsertLists}

SetClauses ==
    { <<"n","m"," ","="," ","'","z","'">>,     \* nm = 'z'
      <<"n","m"," ","="," ","'","z","'",","," ","i","d"," ","="," ","x">>,     \* nm = 'z', id = x
      <<"i","d"," ","="," ","2">>,     \* id = 2
      <<"z","z"," ","="," ","1">> }    \* zz = 1

WhereClauses ==
    { <<"i","d"," ","="," ","1">>,     \* id = 1
      <<"i","d"," ",">","="," ","1">>,     \* id >= 1
      <<"n","m"," ","="," ","'","z","'">> }    \* nm = 'z'

UpdateStmts ==
    {[kind |-> "UPDATE", name |-> TblUsers, set |-> sc, where |-> w] :
        sc \in SetClauses, w \in WhereClauses}

DeleteStmts ==
    {[kind |-> "DELETE", name |-> TblUsers, where |-> w] : w \in {<<>>, <<"i","d"," ","="," ","1">>, <<"i","d"," ",">","="," ","1">>}}

SelectStmt(name, cols, join, where, order, limit) ==
    [kind |-> "SELECT", name |-> name, cols |-> cols, join |-> join, where |-> where,
     order |-> order, limit |-> limit]

\* "JOIN u ON p.uid = u.id"
JoinUsers == <<"J","O","I","N"," ","u"," ","O","N"," ","p",".","u","i","d"," ","="," ","u",".","i","d">>

\* "JOIN u ON u.nm = p.uid": the sides in the opposite table order
JoinSwapped == <<"J","O","I","N"," ","u"," ","O","N"," ","u",".","n","m"," ","="," ","p",".","u","i","d">>

\* "p.id, u.nm"
ColsQualified == <<"p",".","i","d",","," ","u",".","n","m">>

SelectStmts ==
    {SelectStmt(TblUsers, c, <<>>, w, <<>>, l) :
        c \in {<<"*">>, ColNm}, w \in {<<>>, <<"n","m"," ","="," ","'","z","'">>}, l \in {<<>>, <<"1">>}}
    \cup { SelectStmt(TblUsers, <<"*">>, <<>>, <<>>, <<>>, <<"0">>),
           SelectStmt(TblUsers, <<"*">>, <<>>, <<>>, ColId, <<>>),
           SelectStmt(TblUsers, <<"*">>, <<>>, <<>>, ColId, <<"2">>),
           SelectStmt(TblUsers, ColNm, <<>>, <<>>, ColId, <<>>),
           SelectStmt(TblPosts, <<"*">>, JoinUsers, <<>>, <<>>, <<>>),
           SelectStmt(TblPosts, <<"*">>, JoinSwapped, <<>>, <<>>, <<>>),
           SelectStmt(TblPosts, <<"*">>, JoinUsers, <<"i","d"," ","="," ","1">>, <<>>, <<>>),
           SelectStmt(TblPosts, ColsQualified, JoinUsers, <<>>, <<>>, <<"1">>),
           SelectStmt(TblPosts, ColsQualified, JoinUsers, <<>>, <<>>, <<>>) }

Stmts == CreateStmts \cup DropStmts \cup InsertStmts \cup UpdateStmts
         \cup DeleteStmts \cup SelectStmts

NoCall == [kind |-> "none"]

\* A call of AllTables, which takes no argument
AllTablesCall == [kind |-> "TABLES"]

\* No map was returned yet
NoView == [ref |-> "none", then |-> <<>>]

(***************************************************************************)
(* Results of Execute: the status or result set, and the error.            *)
(***************************************************************************)
Msg(kind, name, n, rows) == [kind |-> kind, name |-> name, n |-> n, rows |-> rows]

NoMsg == Msg("", <<>>, 0, <<>>)

Success(m) == [msg |-> m, err |-> "nil"]

Failure(e) == [msg |-> NoMsg, err |-> e]

NoRet == [msg |-> NoMsg, err |-> "pending"]

ZeroLoc ==
    [tbl |-> 0, table |-> newTable(<<>>), row |-> <<>>, slice |-> <<>>, idx |-> <<>>,
     i |-> 0, parts |-> <<>>, results |-> <<>>, found |-> FALSE, rejected |-> FALSE,
     jtbl |-> 0, jslice |-> <<>>, j |-> 0,
     ioerr |-> FALSE, okmsg |-> NoMsg]

(***************************************************************************)
(* NewDatabase: the catalog is empty, or what loadFromFileGob decodes from *)
(* a file an earlier run of the program wrote.                             *)
(***************************************************************************)
RowOf(id, nm) == (ColId :> Int64(id)) @@ (ColNm :> Str(nm))

RECURSIVE columnsOf(_, _, _)
columnsOf(table, defs, i) ==
    IF i > Len(defs) THEN table
    ELSE columnsOf(addColumn(table, parseColumnDef(TrimSpace(defs[i])).v), defs, i + 1)

\* The table CREATE TABLE name (defs) registers, holding rows
StoredTable(name, defs, rows) ==
    [columnsOf(newTable(name), Split(defs, <<",">>), 1) EXCEPT !.Rows = rows]

TwoRows == <<RowOf(1, <<"a">>), RowOf(2, <<"b">>)>>

\* Three rows inserted in descending order of id and nm
ThreeRows == <<RowOf(3, <<"c">>), RowOf(2, <<"b">>), RowOf(1, <<"a">>)>>

ColUid == <<"u","i","d">>

PostOf(id, uid) == (ColId :> Int64(id)) @@ (ColUid :> Int64(uid))

\* Two posts, the first of user 2 and the second of user 1
TwoPosts == <<PostOf(1, 2), PostOf(2, 1)>>

\* The tables of the catalogs the program starts with, in the order decoded
InitStores ==
    { <<>>,
      <<StoredTable(TblUsers, DefsPlain, TwoRows)>>,
      <<StoredTable(TblUsers, DefsKeyed, TwoRows)>>,
      <<StoredTable(TblUsers, DefsKeyed, <<>>)>>,
      <<StoredTable(TblUsers, DefsPlain, ThreeRows)>>,
      <<StoredTable(TblUsers, DefsPlain, TwoRows), StoredTable(TblPosts, DefsPosts, TwoPosts)>> }

\* The file that holds the tables of a store
FileOf(store) ==
    IF store = <<>> THEN NoFile
    ELSE GoodFile([n \in {store[i].Name : i \in 1..Len(store)} |->
                      store[CHOOSE i \in 1..Len(store) : store[i].Name = n]])

InitFiles == {FileOf(store) : store \in InitStores}

\* The stores the goroutines are started on: the sorting of three rows and the
\* one-table store the two-table store extends are left to the sequential runs
ConcStores ==
    { <<>>,
      <<StoredTable(TblUsers, DefsKeyed, TwoRows)>>,
      <<StoredTable(TblUsers, DefsKeyed, <<>>)>>,
      <<StoredTable(TblUsers, DefsPlain, TwoRows), StoredTable(TblPosts, DefsPosts, TwoPosts)>> }

ConcFiles == {FileOf(store) : store \in ConcStores}

\* The number of rows of the tables before the i-th of a store
RECURSIVE RowsBefore(_, _)
RowsBefore(store, i) ==
    IF i <= 1 THEN 0 ELSE RowsBefore(store, i - 1) + Len(store[i - 1].Rows)

RECURSIVE AllRows(_, _)
AllRows(store, i) ==
    IF i > Len(store) THEN <<>> ELSE store[i].Rows \o AllRows(store, i + 1)

\* gob.NewDecoder(file).Decode(db): each table and each of its rows become new
\* objects
Init ==
    \E store \in InitStores : LET f == FileOf(store) IN
        /\ disk = f
        /\ Tables = [n \in DOMAIN f.db |-> CHOOSE i \in 1..Len(store) : store[i].Name = n]
        /\ tableObj = [i \in 1..Len(store) |->
                          [store[i] EXCEPT !.Rows = [k \in 1..Len(store[i].Rows) |->
                                                        RowsBefore(store, i) + k]]]
        /\ rowObj = AllRows(store, 1)
        /\ mu = [writer |-> NoThread, readers |-> {}]
        /\ pc = [t \in Threads |-> "idle"]
        /\ call = [t \in Threads |-> NoCall]
        /\ loc = [t \in Threads |-> ZeroLoc]
        /\ ret = [t \in Threads |-> NoRet]
        /\ panicked = FALSE
        /\ ioFails = 0
        /\ newRows = 0
        /\ calls = 0
        /\ pre = f.db
        /\ view = NoView
        \* a file that holds an empty table is what CREATE TABLE wrote
        /\ fresh = {n \in DOMAIN tableObj : AutoKeyed(tableObj[n]) /\ tableObj[n].Rows = <<>>}

(***************************************************************************)
(* Steps common to the handlers.                                           *)
(***************************************************************************)
\* The call of goroutine t returns r
Finish(t, r) ==
    /\ pc' = [pc EXCEPT ![t] = "idle"]
    /\ ret' = [ret EXCEPT ![t] = r]
    /\ loc' = [loc EXCEPT ![t] = ZeroLoc]

\* The call of goroutine t goes on at label with locals l
Continue(t, label, l) ==
    /\ pc' = [pc EXCEPT ![t] = label]
    /\ ret' = [ret EXCEPT ![t] = NoRet]
    /\ loc' = [loc EXCEPT ![t] = l]

\* Goroutine t may call Execute: in sequential use the one goroutine, call after
\* call; in concurrent use every goroutine, once
MayCall(t) ==
    IF sequential THEN t = MainThread /\ calls < MaxCalls ELSE call[t] = NoCall

\* Execute dispatches statement s in goroutine t
Dispatch(t, s, kind) ==
    /\ ~panicked
    /\ pc[t] = "idle"
    /\ MayCall(t)
    /\ s.kind = kind
    /\ call' = [call EXCEPT ![t] = s]
    /\ calls' = calls + 1
    /\ pre' = IF sequential THEN Catalog ELSE pre
    /\ UNCHANGED <<sequential, cmp, kw, view>>

At(t, label) ==
    ~panicked /\ pc[t] = label /\ UNCHANGED <<call, calls, pre, sequential, cmp, kw, view>>

\* db.mu.RUnlock()
RUnlock(m, t) == [m EXCEPT !.readers = @ \ {t}]

\* What saveToFileGob leaves in the file when it returns an error: os.Create
\* failed and the file is as it was, or Encode failed on the truncated file
failedFiles == {disk, PartialFile}

\* saveToFileGob: db.mu.Lock(), os.Create, Encode
saveToFileGob_Lock(t) ==
    /\ At(t, "save")
    /\ mu.writer = NoThread /\ mu.readers = {}
    /\ mu' = [mu EXCEPT !.writer = t]
    /\ \/ /\ disk' = GoodFile(gobEncode)
          /\ Continue(t, "sv_unlock", loc[t])
          /\ UNCHANGED ioFails
       \/ /\ ioFails < MaxIOFailures
          /\ ioFails' = ioFails + 1
          /\ disk' \in failedFiles
          /\ Continue(t, "sv_unlock", [loc[t] EXCEPT !.ioerr = TRUE])
    /\ UNCHANGED <<Tables, tableObj, rowObj, panicked, newRows, fresh>>

\* A variant that drops the error of saveToFileGob
afterSaveUnchecked(l) == Success(l.okmsg)

\* What a mutating handler returns after saveToFileGob
afterSave(l) == IF l.ioerr THEN Failure("io") ELSE Success(l.okmsg)

\* saveToFileGob: the deferred db.mu.Unlock(), and the handler returns
saveToFileGob_Unlock(t) ==
    /\ At(t, "sv_unlock")
    /\ mu' = [mu EXCEPT !.writer = NoThread]
    /\ Finish(t, afterSave(loc[t]))
    /\ UNCHANGED <<Tables, tableObj, rowObj, disk, panicked, ioFails, newRows, fresh>>

(***************************************************************************)
(* Database.CreateTable                                                    *)
(***************************************************************************)
Creating == {t \in Threads : pc[t] \in {"ct_cols", "ct_fk", "ct_put"}}

\* A lookup that finds no name
nameExistsNever(tables, name) == FALSE

\* _, exists := db.Tables[name]
nameExists(tables, name) == name \in DOMAIN tables

CreateTable_Begin(t, s) ==
    /\ Dispatch(t, s, "CREATE")
    /\ Len(tableObj) + Cardinality(Creating) < MaxTables
    /\ IF nameExists(Tables, s.name)
       THEN Finish(t, Failure("table already exists"))
       ELSE Continue(t, "ct_cols",
                     [ZeroLoc EXCEPT !.table = newTable(s.name),
                                     !.parts = Split(s.defs, <<",">>), !.i = 1])
    /\ UNCHANGED <<Tables, tableObj, rowObj, mu, disk, panicked, ioFails, newRows, fresh>>

\* The column the loop of CreateTable is at
columnAt(l) == parseColumnDef(TrimSpace(l.parts[l.i]))

hasReference(column) == column.ReferenceColumn # <<>> /\ column.ReferenceTable # <<>>

\* table.addColumn(*column) and the next round of the loop
columnAdded(t, column) ==
    LET l == [loc[t] EXCEPT !.table = addColumn(@, column), !.i = @ + 1]
    IN  Continue(t, IF l.i > Len(l.parts) THEN "ct_put" ELSE "ct_cols", l)

\* One round of the loop over columnDefs for a column without a reference
CreateTable_Column(t) ==
    /\ At(t, "ct_cols")
    /\ LET r == columnAt(loc[t])
       IN  /\ (IF r.ok THEN ~hasReference(r.v) ELSE TRUE)
           /\ IF ~r.ok THEN Finish(t, Failure("error parsing column definition"))
              ELSE columnAdded(t, r.v)
    /\ UNCHANGED <<Tables, tableObj, rowObj, mu, disk, panicked, ioFails, newRows, fresh>>

\* db.tableExists(column.ReferenceTable): RLock and the lookup
CreateTable_tableExists(t) ==
    /\ At(t, "ct_cols")
    /\ LET r == columnAt(loc[t])
       IN  /\ r.ok /\ hasReference(r.v)
           /\ mu.writer = NoThread
           /\ mu' = [mu EXCEPT !.readers = @ \cup {t}]
           /\ Continue(t, "ct_fk", [loc[t] EXCEPT !.found = r.v.ReferenceTable \in DOMAIN Tables])
    /\ UNCHANGED <<Tables, tableObj, rowObj, disk, panicked, ioFails, newRows, fresh>>

\* db.tableExists: the deferred RUnlock, then the rest of the round
CreateTable_tableExists_RUnlock(t) ==
    /\ At(t, "ct_fk")
    /\ mu' = RUnlock(mu, t)
    /\ IF ~loc[t].found
       THEN Finish(t, Failure("foreign key reference to unknown table"))
       ELSE columnAdded(t, columnAt(loc[t]).v)
    /\ UNCHANGED <<Tables, tableObj, rowObj, disk, panicked, ioFails, newRows, fresh>>

\* db.Tables[name] = table
CreateTable_Put(t) ==
    /\ At(t, "ct_put")
    /\ tableObj' = Append(tableObj, loc[t].table)
    /\ Tables' = (loc[t].table.Name :> (Len(tableObj) + 1)) @@ Tables
    /\ fresh' = IF AutoKeyed(loc[t].table) THEN fresh \cup {Len(tableObj) + 1} ELSE fresh
    /\ Continue(t, "save",
                [ZeroLoc EXCEPT !.okmsg = Msg("Table created", loc[t].table.Name, 0, <<>>)])
    /\ UNCHANGED <<rowObj, mu, disk, panicked, ioFails, newRows>>

(***************************************************************************)
(* Database.DropTable                                                      *)
(***************************************************************************)
\* A delete that leaves the map as it is
deleteKept(tables, name) == tables

\* delete(db.Tables, name)
delete(tables, name) == [n \in DOMAIN tables \ {name} |-> tables[n]]

DropTable_Begin(t, s) ==
    /\ Dispatch(t, s, "DROP")
    /\ Tables' = delete(Tables, s.name)
    /\ Continue(t, "save", [ZeroLoc EXCEPT !.okmsg = Msg("Table dropped", s.name, 0, <<>>)])
    /\ UNCHANGED <<tableObj, rowObj, mu, disk, panicked, ioFails, newRows, fresh>>

(***************************************************************************)
(* Database.Insert                                                         *)
(***************************************************************************)
\* Execute: the column and value lists of an INSERT
\* A column list that stands for (id, nm) when the statement has none
insertColumnsImplied(s) ==
    Split(IF s.cols # <<>> THEN s.cols ELSE <<"i","d",",","n","m">>, <<",">>)

\* columns stays nil when the statement has no column list
insertColumns(s) == IF s.cols # <<>> THEN Split(s.cols, <<",">>) ELSE <<>>

insertValues(s) == Split(s.vals, <<",">>)

\* Insert's search of the column type: no break, the last column of that name
\* decides; the empty type when there is none
insertColType(columns, col) ==
    LET hits == {i \in 1..Len(columns) : columns[i].Name = col}
    IN  IF hits = {} THEN <<>>
        ELSE columns[CHOOSE i \in hits : \A j \in hits : j <= i].Type

\* A variant of the loop that gives the row a zero in every column of the table
\* the column list omits
RECURSIVE insertRowZeroed(_, _, _, _, _)
insertRowZeroed(tcolumns, columns, values, i, row) ==
    IF i > Len(columns)
    THEN Ok(row @@ [c \in {tcolumns[k].Name : k \in 1..Len(tcolumns)} |-> Int64(0)])
    ELSE LET col == TrimSpace(columns[i])
             val == TrimSpace(values[i])
             r == columnTypeConversion(insertColType(tcolumns, col), val)
         IN  IF ~r.ok THEN r
             ELSE insertRowZeroed(tcolumns, columns, values, i + 1, (col :> r.v) @@ row)

\* The loop of Insert over its column list: the row, or the conversion error
RECURSIVE insertRow(_, _, _, _, _)
insertRow(tcolumns, columns, values, i, row) ==
    IF i > Len(columns) THEN Ok(row)
    ELSE LET col == TrimSpace(columns[i])
             val == TrimSpace(values[i])
             r == columnTypeConversion(insertColType(tcolumns, col), val)
         IN  IF ~r.ok THEN r
             ELSE insertRow(tcolumns, columns, values, i + 1, (col :> r.v) @@ row)

Insert_Begin(t, s) ==
    /\ Dispatch(t, s, "INSERT")
    /\ newRows < MaxNewRows
    /\ LET columns == insertColumns(s)
           values == insertValues(s)
       IN  IF s.name \notin DOMAIN Tables
           THEN /\ Finish(t, Failure("table does not exist"))
                /\ UNCHANGED <<newRows, fresh>>
           ELSE IF Len(columns) # Len(values)
           THEN /\ Finish(t, Failure("column count does not match value count"))
                /\ UNCHANGED <<newRows, fresh>>
           ELSE LET tid == Tables[s.name]
                    r == insertRow(tableObj[tid].Columns, columns, values, 1, <<>>)
                IN  IF ~r.ok
                    THEN /\ Finish(t, Failure(r.e))
                         /\ UNCHANGED <<newRows, fresh>>
                    ELSE /\ Continue(t, "in_add", [ZeroLoc EXCEPT !.tbl = tid, !.row = r.v])
                         /\ newRows' = newRows + 1
                         /\ fresh' = IF \E i \in 1..Len(columns) :
                                            TrimSpace(columns[i]) = tableObj[tid].PrimaryKey
                                     THEN fresh \ {tid} ELSE fresh
    /\ UNCHANGED <<Tables, tableObj, rowObj, mu, disk, panicked, ioFails>>

\* What Insert does with the result of table.addRow(row): the call is a
\* statement, its result is dropped, and Insert goes on to the snapshot
insertStatus(added) == Msg("1 row inserted", <<>>, 0, <<>>)

\* table.addRow(row), up to its append: the auto-increment fill and the checks
Insert_addRow(t) ==
    /\ At(t, "in_add")
    /\ LET table == tableObj[loc[t].tbl]
           r == addRowCheck(table, RowsOf(table.Rows), loc[t].row)
       IN  IF ~r.ok
           THEN Continue(t, "save", [ZeroLoc EXCEPT !.rejected = TRUE,
                                                    !.okmsg = insertStatus(r)])
           ELSE Continue(t, "in_append",
                         [loc[t] EXCEPT !.row = r.v, !.slice = table.Rows,
                                        !.okmsg = insertStatus(r)])
    /\ UNCHANGED <<Tables, tableObj, rowObj, mu, disk, panicked, ioFails, newRows, fresh>>

\* table.addRow(row): t.Rows = append(t.Rows, row), on the slice it read
Insert_append(t) ==
    /\ At(t, "in_append")
    /\ rowObj' = Append(rowObj, loc[t].row)
    /\ tableObj' = [tableObj EXCEPT ![loc[t].tbl].Rows = Append(loc[t].slice, Len(rowObj) + 1)]
    /\ Continue(t, "save", [ZeroLoc EXCEPT !.okmsg = loc[t].okmsg])
    /\ UNCHANGED <<Tables, mu, disk, panicked, ioFails, newRows, fresh>>

(***************************************************************************)
(* Database.Delete                                                         *)
(***************************************************************************)
\* A variant that keeps the rows the WHERE clause accepts
deleteKeepsAccepted(row, whereClause) == whereClause = <<>> \/ evaluateWhere(row, whereClause)

\* A variant that keeps no row when there is no WHERE clause
deleteKeepsFiltered(row, whereClause) == whereClause # <<>> /\ ~evaluateWhere(row, whereClause)

\* The rows the loop of Delete appends to results
deleteKeeps(row, whereClause) == whereClause = <<>> \/ ~evaluateWhere(row, whereClause)

\* A variant that counts the rows removed
deleteCountRemoved(before, results) == before - Len(results)

\* The count Delete reports
deleteCount(before, results) == Len(results)

RECURSIVE SelectIds(_, _, _)
SelectIds(slice, whereClause, i) ==
    IF i > Len(slice) THEN <<>>
    ELSE (IF deleteKeeps(rowObj[slice[i]], whereClause) THEN <<slice[i]>> ELSE <<>>)
         \o SelectIds(slice, whereClause, i + 1)

Delete_Begin(t, s) ==
    /\ Dispatch(t, s, "DELETE")
    /\ IF s.name \notin DOMAIN Tables
       THEN Finish(t, Failure("table does not exist")) /\ UNCHANGED fresh
       ELSE LET tid == Tables[s.name]
                slice == tableObj[tid].Rows
            IN  IF Len(slice) = 0
                THEN Finish(t, Failure("table is empty")) /\ UNCHANGED fresh
                ELSE /\ Continue(t, "dl_write",
                           [ZeroLoc EXCEPT !.tbl = tid,
                                           !.slice = SelectIds(slice, s.where, 1),
                                           !.i = Len(slice)])
                     /\ fresh' = fresh \ {tid}
    /\ UNCHANGED <<Tables, tableObj, rowObj, mu, disk, panicked, ioFails, newRows>>

\* table.Rows = results
Delete_Write(t) ==
    /\ At(t, "dl_write")
    /\ tableObj' = [tableObj EXCEPT ![loc[t].tbl].Rows = loc[t].slice]
    /\ Continue(t, "save",
                [ZeroLoc EXCEPT !.okmsg = Msg("rows deleted", <<>>,
                                             deleteCount(loc[t].i, loc[t].slice), <<>>)])
    /\ UNCHANGED <<Tables, rowObj, mu, disk, panicked, ioFails, newRows, fresh>>

(***************************************************************************)
(* Database.Update                                                         *)
(***************************************************************************)
\* A variant of the first pass that takes every row
updatedIndicesAll(rows, whereClause) == [i \in 1..Len(rows) |-> i]

\* The first pass of Update: the indices of the rows the WHERE clause accepts
updatedIndices(rows, whereClause) ==
    LET hit == {i \in 1..Len(rows) : evaluateWhere(rows[i], whereClause)}
        RECURSIVE Asc(_)
        Asc(i) == IF i > Len(rows) THEN <<>>
                  ELSE (IF i \in hit THEN <<i>> ELSE <<>>) \o Asc(i + 1)
    IN  Asc(1)

\* Update's search of the column type: the first column of that name
updateColType(columns, col) ==
    LET hits == {i \in 1..Len(columns) : columns[i].Name = col}
    IN  IF hits = {} THEN <<>>
        ELSE columns[CHOOSE i \in hits : \A j \in hits : i <= j].Type

\* One assignment of the SET list: the column and the converted value, or the error
setPartOf(tcolumns, setPart) ==
    LET assignment[parts \in Seq(Seq(STRING))] ==
            IF Len(parts) # 2 THEN Err("invalid set clause")
            ELSE LET col == TrimSpace(parts[1])
                     val == TrimSpace(parts[2])
                     colType == updateColType(tcolumns, col)
                 IN  IF ~isValidColumnType(colType) THEN Err("invalid column type")
                     ELSE LET r == columnTypeConversion(colType, val)
                          IN  IF ~r.ok THEN r ELSE Ok([col |-> col, val |-> r.v])
    IN  assignment[Split(setPart, <<"=">>)]

Update_Begin(t, s) ==
    /\ Dispatch(t, s, "UPDATE")
    /\ IF s.name \notin DOMAIN Tables
       THEN Finish(t, Failure("table does not exist")) /\ UNCHANGED fresh
       ELSE LET tid == Tables[s.name]
                rows == RowsOf(tableObj[tid].Rows)
                idx == updatedIndices(rows, s.where)
            IN  /\ fresh' = fresh \ {tid}
                /\ IF Len(rows) = 0 THEN Finish(t, Failure("table is empty"))
                   ELSE IF Len(idx) = 0 THEN Finish(t, Failure("no rows found"))
                   ELSE Continue(t, "up_set",
                            [ZeroLoc EXCEPT !.tbl = tid, !.idx = idx, !.i = 1,
                                            !.parts = Split(s.set, <<",">>)])
    /\ UNCHANGED <<Tables, tableObj, rowObj, mu, disk, panicked, ioFails, newRows>>

\* One round of the loop over the SET list: table.Rows[i][col] = convertedVal
\* for every index of the first pass, on the slice the table holds now
Update_Set(t) ==
    /\ At(t, "up_set")
    /\ LET l == loc[t]
           table == tableObj[l.tbl]
           r == setPartOf(table.Columns, l.parts[l.i])
           inRange == {table.Rows[l.idx[k]] : k \in {j \in 1..Len(l.idx) :
                                                       l.idx[j] <= Len(table.Rows)}}
           outOfRange == \E k \in 1..Len(l.idx) : l.idx[k] > Len(table.Rows)
       IN  IF ~r.ok
           THEN Finish(t, Failure(r.e)) /\ UNCHANGED <<rowObj, panicked>>
           ELSE /\ rowObj' = [id \in DOMAIN rowObj |->
                                 IF id \in inRange THEN (r.v.col :> r.v.val) @@ rowObj[id]
                                 ELSE rowObj[id]]
                /\ panicked' = outOfRange
                /\ IF l.i < Len(l.parts)
                   THEN Continue(t, "up_set", [l EXCEPT !.i = @ + 1])
                   ELSE Continue(t, "save",
                            [ZeroLoc EXCEPT !.okmsg = Msg("rows updated", <<>>, Len(l.idx), <<>>)])
    /\ UNCHANGED <<Tables, tableObj, mu, disk, ioFails, newRows, fresh>>

(***************************************************************************)
(* Table.columnExists, Table.GetColumn and sortRows: their code is not     *)
(* part of the sources at hand and is taken from the specification.        *)
(***************************************************************************)
columnExists(table, name) == \E i \in 1..Len(table.Columns) : table.Columns[i].Name = name

GetColumn(table, name) ==
    table.Columns[CHOOSE i \in 1..Len(table.Columns) :
                      /\ table.Columns[i].Name = name
                      /\ \A j \in 1..(i - 1) : table.Columns[j].Name # name]

DIR_ASC == <<"A","S","C">>

DIR_DESC == <<"D","E","S","C">>

\* The row holds a value of the column's type in the column
sortable(row, column) ==
    /\ HasKey(row, column.Name)
    /\ \/ column.Type = COLUMN_TYPE_INT /\ row[column.Name].t = "int64"
       \/ column.Type = COLUMN_TYPE_VARCHAR /\ row[column.Name].t = "string"

\* The comparison of the sort: false in both directions for a row without a
\* value of the column's type
rowBefore(a, b, column, direction) ==
    /\ sortable(a, column) /\ sortable(b, column)
    /\ LET x == a[column.Name].v
           y == b[column.Name].v
       IN  IF column.Type = COLUMN_TYPE_INT
           THEN (IF direction = DIR_ASC THEN x < y ELSE y < x)
           ELSE (IF direction = DIR_ASC THEN StrLess(x, y) ELSE StrLess(y, x))

\* The place a stable sort moves row to, from behind the sorted rows: it passes
\* the rows it comes before, and stops at the first it does not
RECURSIVE placeOf(_, _, _, _, _)
placeOf(sorted, row, j, column, direction) ==
    IF j > 1 /\ rowBefore(row, sorted[j - 1], column, direction)
    THEN placeOf(sorted, row, j - 1, column, direction)
    ELSE j

RECURSIVE sortPrefix(_, _, _, _)
sortPrefix(rows, n, column, direction) ==
    IF n = 0 THEN <<>>
    ELSE LET sorted == sortPrefix(rows, n - 1, column, direction)
             j == placeOf(sorted, rows[n], n, column, direction)
         IN  Sub(sorted, 1, j - 1) \o <<rows[n]>> \o Sub(sorted, j, n - 1)

\* sortRows that leaves the rows as they are
sortRowsUnsorted(rows, column, direction) == rows

sortRows(rows, column, direction) == sortPrefix(rows, Len(rows), column, direction)

(***************************************************************************)
(* The clause parsers of Select.                                           *)
(***************************************************************************)
parseOrderByClause(orderByClause) ==
    LET parts == Fields(TrimSpace(orderByClause))
    IN  IF orderByClause = <<>> THEN Err("empty order by clause")
        ELSE IF Len(parts) = 0 THEN Err("invalid order by clause")
        ELSE IF Len(parts) > 1
        THEN (IF ToUpper(parts[2]) \in {DIR_ASC, DIR_DESC}
              THEN Ok([col |-> parts[1], dir |-> ToUpper(parts[2])])
              ELSE Err("invalid order by direction"))
        ELSE Ok([col |-> parts[1], dir |-> DIR_ASC])

KW_ON == <<"O","N">>

KW_JOIN == <<"J","O","I","N">>

parseJoinClause(joinClause) ==
    LET parts == SplitN2(joinClause, KW_ON)
    IN  IF Len(parts) # 2 THEN Err("invalid join syntax")
        ELSE LET joinTable == TrimSpace(TrimPrefix(TrimSpace(parts[1]), KW_JOIN))
             IN  IF joinTable = <<>> THEN Err("missing join table name")
                 ELSE Ok([table |-> joinTable, cond |-> TrimSpace(parts[2])])

parseJoinCondition(condition) ==
    LET parts == Split(condition, <<"=">>)
    IN  IF Len(parts) # 2 THEN Err("invalid join condition")
        ELSE LET leftParts == Split(TrimSpace(parts[1]), <<".">>)
                 rightParts == Split(TrimSpace(parts[2]), <<".">>)
             IN  IF Len(leftParts) # 2 THEN Err("invalid left side of join condition")
                 ELSE IF Len(rightParts) # 2 THEN Err("invalid right side of join condition")
                 ELSE Ok([left |-> leftParts[2], right |-> rightParts[2]])

(***************************************************************************)
(* Database.Select                                                         *)
(***************************************************************************)
\* strconv.Atoi of the LIMIT clause, which the regular expression makes digits
parseLimitClause(limitClause) == IF limitClause # <<>> THEN DigitsVal(limitClause) ELSE 0

\* The projection of one accepted row: the result row, or column not found
RECURSIVE project(_, _, _, _)
project(row, columns, i, resultRow) ==
    IF i > Len(columns) THEN Ok(resultRow)
    ELSE LET col == TrimSpace(columns[i])
         IN  IF col = <<"*">> THEN project(row, columns, i + 1, row @@ resultRow)
             ELSE IF HasKey(row, col)
             THEN project(row, columns, i + 1, (col :> row[col]) @@ resultRow)
             ELSE Err("column not found")

\* One round of the loop over mainTable.Rows: "next" with the results so far,
\* "break" at the limit, or "error"
selectRow(s, row, results) ==
    IF ~(s.where = <<>> \/ evaluateWhere(row, s.where))
    THEN [go |-> "next", results |-> results]
    ELSE LET r == project(row, Split(s.cols, <<",">>), 1, <<>>)
         IN  IF ~r.ok THEN [go |-> "error", results |-> results]
             ELSE IF /\ s.limit # <<>>
                     /\ parseLimitClause(s.limit) > 0
                     /\ Len(results) >= parseLimitClause(s.limit)
             THEN [go |-> "break", results |-> results]
             ELSE [go |-> "next", results |-> Append(results, r.v)]

\* What Select returns after its loop when there is no ORDER BY clause
selectResult(results) ==
    IF Len(results) = 0 THEN Failure("no results found")
    ELSE Success(Msg("rows", <<>>, 0, results))

\* The value of row[col]: nil for a key the row does not hold
Nil == [t |-> "nil", v |-> 0]

lookup(row, col) == IF HasKey(row, col) THEN row[col] ELSE Nil

\* A combined row in which the fields of the main row win on a key collision
combinedRowMainWins(mainRow, joinRow) == mainRow @@ joinRow

\* maps.Copy(combinedRow, mainRow); maps.Copy(combinedRow, joinRow): the fields
\* of the join row win on a key collision
combinedRow(mainRow, joinRow) == joinRow @@ mainRow

\* The projection of one combined row of a JOIN: the value of one column of
\* the list, by its name in the combined row or as table.column
joinColumn(s, joinTableName, mainRow, joinRow, col) ==
    LET combined == combinedRow(mainRow, joinRow)
        parts == Split(col, <<".">>)
    IN  IF HasKey(combined, col) THEN Ok(combined[col])
        ELSE IF Len(parts) = 2 /\ parts[1] = s.name /\ HasKey(mainRow, parts[2])
        THEN Ok(mainRow[parts[2]])
        ELSE IF /\ Len(parts) = 2 /\ parts[1] # s.name /\ parts[1] = joinTableName
                /\ HasKey(joinRow, parts[2])
        THEN Ok(joinRow[parts[2]])
        ELSE Err("column not found")

RECURSIVE joinProject(_, _, _, _, _, _, _)
joinProject(s, joinTableName, mainRow, joinRow, columns, i, resultRow) ==
    IF i > Len(columns) THEN Ok(resultRow)
    ELSE IF TrimSpace(columns[i]) = <<"*">>
    THEN joinProject(s, joinTableName, mainRow, joinRow, columns, i + 1,
                     combinedRow(mainRow, joinRow) @@ resultRow)
    ELSE IF ~joinColumn(s, joinTableName, mainRow, joinRow, TrimSpace(columns[i])).ok
    THEN Err("column not found")
    ELSE joinProject(s, joinTableName, mainRow, joinRow, columns, i + 1,
                     (TrimSpace(columns[i]) :>
                          joinColumn(s, joinTableName, mainRow, joinRow, TrimSpace(columns[i])).v)
                     @@ resultRow)

\* One round of the inner loop of a JOIN: "next", "break" at the limit, "error"
joinPair(s, join, mainRow, joinRow, results) ==
    IF lookup(mainRow, join[2]) # lookup(joinRow, join[3])
    THEN [go |-> "next", results |-> results]
    ELSE IF ~(s.where = <<>> \/ evaluateWhere(combinedRow(mainRow, joinRow), s.where))
    THEN [go |-> "next", results |-> results]
    ELSE LET r == joinProject(s, join[1], mainRow, joinRow, Split(s.cols, <<",">>), 1, <<>>)
         IN  IF ~r.ok THEN [go |-> "error", results |-> results]
             ELSE IF /\ s.limit # <<>>
                     /\ parseLimitClause(s.limit) > 0
                     /\ Len(results) >= parseLimitClause(s.limit)
             THEN [go |-> "break", results |-> results]
             ELSE [go |-> "next", results |-> Append(results, r.v)]

\* After the loops: no results found, the results, or on to ORDER BY
selectLoopDone(t, results) ==
    LET s == call[t]
    IN  IF Len(results) = 0 \/ s.order = <<>> THEN Finish(t, selectResult(results))
        ELSE IF ~parseOrderByClause(s.order).ok
        THEN Finish(t, Failure(parseOrderByClause(s.order).e))
        ELSE Continue(t, "so_lock", [ZeroLoc EXCEPT !.results = results])

\* db.getTable(tableName): RLock and the lookup
Select_getTable(t, s) ==
    /\ Dispatch(t, s, "SELECT")
    /\ mu.writer = NoThread
    /\ mu' = [mu EXCEPT !.readers = @ \cup {t}]
    /\ Continue(t, "sl_unlock",
                [ZeroLoc EXCEPT !.found = s.name \in DOMAIN Tables,
                                !.tbl = IF s.name \in DOMAIN Tables THEN Tables[s.name] ELSE 0])
    /\ UNCHANGED <<Tables, tableObj, rowObj, disk, panicked, ioFails, newRows, fresh>>

\* db.getTable: the deferred RUnlock; then `range mainTable.Rows` reads the
\* slice, or parseJoinClause
Select_getTable_RUnlock(t) ==
    /\ At(t, "sl_unlock")
    /\ mu' = RUnlock(mu, t)
    /\ IF ~loc[t].found THEN Finish(t, Failure("table does not exist"))
       ELSE IF call[t].join # <<>>
       THEN (IF ~parseJoinClause(call[t].join).ok
             THEN Finish(t, Failure("invalid join clause"))
             ELSE Continue(t, "sj_lock", loc[t]))
       ELSE IF Len(tableObj[loc[t].tbl].Rows) = 0 THEN selectLoopDone(t, <<>>)
       ELSE Continue(t, "sl_scan", [loc[t] EXCEPT !.slice = tableObj[loc[t].tbl].Rows, !.i = 1])
    /\ UNCHANGED <<Tables, tableObj, rowObj, disk, panicked, ioFails, newRows, fresh>>

\* One round of the loop over the rows of the slice
Select_Row(t) ==
    /\ At(t, "sl_scan")
    /\ LET l == loc[t]
           r == selectRow(call[t], rowObj[l.slice[l.i]], l.results)
       IN  IF r.go = "error" THEN Finish(t, Failure("column not found"))
           ELSE IF r.go = "break" \/ l.i = Len(l.slice) THEN selectLoopDone(t, r.results)
           ELSE Continue(t, "sl_scan", [l EXCEPT !.i = @ + 1, !.results = r.results])
    /\ UNCHANGED <<Tables, tableObj, rowObj, mu, disk, panicked, ioFails, newRows, fresh>>

\* db.getTable(joinTableName): RLock and the lookup
Select_join_getTable(t) ==
    /\ At(t, "sj_lock")
    /\ mu.writer = NoThread
    /\ mu' = [mu EXCEPT !.readers = @ \cup {t}]
    /\ LET name == parseJoinClause(call[t].join).v.table
       IN  Continue(t, "sj_unlock",
                    [loc[t] EXCEPT !.found = name \in DOMAIN Tables,
                                   !.jtbl = IF name \in DOMAIN Tables THEN Tables[name] ELSE 0])
    /\ UNCHANGED <<Tables, tableObj, rowObj, disk, panicked, ioFails, newRows, fresh>>

\* db.getTable: the deferred RUnlock; parseJoinCondition; then `range
\* mainTable.Rows` reads the slice
Select_join_getTable_RUnlock(t) ==
    /\ At(t, "sj_unlock")
    /\ mu' = RUnlock(mu, t)
    /\ LET join == parseJoinClause(call[t].join).v
           cond == parseJoinCondition(join.cond)
       IN  IF ~loc[t].found THEN Finish(t, Failure("join table does not exist"))
           ELSE IF ~cond.ok THEN Finish(t, Failure("invalid join condition"))
           ELSE IF Len(tableObj[loc[t].tbl].Rows) = 0 THEN selectLoopDone(t, <<>>)
           ELSE Continue(t, "sj_scan",
                         [loc[t] EXCEPT !.slice = tableObj[loc[t].tbl].Rows, !.i = 1,
                                        !.jslice = tableObj[loc[t].jtbl].Rows, !.j = 1,
                                        !.parts = <<join.table, cond.v.left, cond.v.right>>])
    /\ UNCHANGED <<Tables, tableObj, rowObj, disk, panicked, ioFails, newRows, fresh>>

\* One round of the inner loop of a JOIN, over the rows of joinTable.Rows as
\* read when the round of the outer loop began; none when that slice is empty
Select_JoinPair(t) ==
    /\ At(t, "sj_scan")
    /\ LET l == loc[t]
           r == IF Len(l.jslice) = 0 THEN [go |-> "next", results |-> l.results]
                ELSE joinPair(call[t], l.parts, rowObj[l.slice[l.i]],
                              rowObj[l.jslice[l.j]], l.results)
       IN  IF r.go = "error" THEN Finish(t, Failure("column not found"))
           ELSE IF r.go = "break" THEN selectLoopDone(t, r.results)
           ELSE IF l.j < Len(l.jslice)
           THEN Continue(t, "sj_scan", [l EXCEPT !.j = @ + 1, !.results = r.results])
           ELSE IF l.i < Len(l.slice)
           THEN Continue(t, "sj_scan",
                         [l EXCEPT !.i = @ + 1, !.j = 1, !.results = r.results,
                                   !.jslice = tableObj[l.jtbl].Rows])
           ELSE selectLoopDone(t, r.results)
    /\ UNCHANGED <<Tables, tableObj, rowObj, mu, disk, panicked, ioFails, newRows, fresh>>

\* ORDER BY: db.getTable(tableName), RLock and the lookup
Select_order_getTable(t) ==
    /\ At(t, "so_lock")
    /\ mu.writer = NoThread
    /\ mu' = [mu EXCEPT !.readers = @ \cup {t}]
    /\ LET name == call[t].name
       IN  Continue(t, "so_unlock",
                    [loc[t] EXCEPT !.found = name \in DOMAIN Tables,
                                   !.tbl = IF name \in DOMAIN Tables THEN Tables[name] ELSE 0])
    /\ UNCHANGED <<Tables, tableObj, rowObj, disk, panicked, ioFails, newRows, fresh>>

\* ORDER BY: the deferred RUnlock, the column of the main table, sortRows
Select_order_getTable_RUnlock(t) ==
    /\ At(t, "so_unlock")
    /\ mu' = RUnlock(mu, t)
    /\ LET ob == parseOrderByClause(call[t].order).v
       IN  IF ~loc[t].found THEN Finish(t, Failure("table does not exist"))
           ELSE IF ~columnExists(tableObj[loc[t].tbl], ob.col)
           THEN Finish(t, Failure("column does not exist"))
           ELSE Finish(t, Success(Msg("rows", <<>>, 0,
                             sortRows(loc[t].results,
                                      GetColumn(tableObj[loc[t].tbl], ob.col), ob.dir))))
    /\ UNCHANGED <<Tables, tableObj, rowObj, disk, panicked, ioFails, newRows, fresh>>

(***************************************************************************)
(* Database.AllTables                                                      *)
(***************************************************************************)
\* What a map reference holds now: the maps a caller can hold are db.Tables
\* itself, whose tables and rows are those of the catalog
mapOf(ref) == IF ref = "db.Tables" THEN Catalog ELSE <<>>

\* db.mu.RLock()
AllTables_RLock(t) ==
    /\ Dispatch(t, AllTablesCall, "TABLES")
    /\ mu.writer = NoThread
    /\ mu' = [mu EXCEPT !.readers = @ \cup {t}]
    /\ Continue(t, "at_unlock", ZeroLoc)
    /\ UNCHANGED <<Tables, tableObj, rowObj, disk, panicked, ioFails, newRows, fresh>>

\* return db.Tables, nil and the deferred RUnlock: the caller gets the map of
\* the database, not a copy
AllTables_RUnlock(t) ==
    /\ ~panicked
    /\ pc[t] = "at_unlock"
    /\ mu' = RUnlock(mu, t)
    /\ Finish(t, Success(Msg("tables", <<>>, 0, <<>>)))
    /\ view' = [ref |-> "db.Tables", then |-> Catalog]
    /\ UNCHANGED <<Tables, tableObj, rowObj, disk, panicked, ioFails, newRows, fresh,
                   call, calls, pre, sequential, cmp, kw>>

(***************************************************************************)
(* The specifications.                                                     *)
(***************************************************************************)
\* No call of evaluateWhere on its own
NoCmp == [val |-> 0, lit |-> [text |-> <<>>, num |-> 0], done |-> {}, holds |-> {}]

NoKw == [fn |-> "none", words |-> <<>>, keys |-> {}, out |-> <<>>]

\* The steps of a call that has begun
Step(t) ==
    \/ CreateTable_Column(t)
    \/ CreateTable_tableExists(t)
    \/ CreateTable_tableExists_RUnlock(t)
    \/ CreateTable_Put(t)
    \/ Insert_addRow(t)
    \/ Insert_append(t)
    \/ Delete_Write(t)
    \/ Update_Set(t)
    \/ Select_getTable_RUnlock(t)
    \/ Select_Row(t)
    \/ Select_join_getTable(t)
    \/ Select_join_getTable_RUnlock(t)
    \/ Select_JoinPair(t)
    \/ Select_order_getTable(t)
    \/ Select_order_getTable_RUnlock(t)
    \/ AllTables_RUnlock(t)
    \/ saveToFileGob_Lock(t)
    \/ saveToFileGob_Unlock(t)

\* Goroutine t calls Execute with a statement of stmts, or AllTables
Call(t, stmts) ==
    \/ \E s \in stmts :
          \/ CreateTable_Begin(t, s)
          \/ DropTable_Begin(t, s)
          \/ Insert_Begin(t, s)
          \/ Delete_Begin(t, s)
          \/ Update_Begin(t, s)
          \/ Select_getTable(t, s)
    \/ AllTables_RLock(t)

Next == \E t \in Threads : Call(t, Stmts) \/ Step(t)

\* Sequential use: one goroutine, each call after the one before has returned
SeqInit == Init /\ sequential = TRUE /\ cmp = NoCmp /\ kw = NoKw

Spec == SeqInit /\ [][Next]_vars

\* Concurrent use: every goroutine makes one Execute call
ConcInit == Init /\ sequential = FALSE /\ disk \in ConcFiles /\ cmp = NoCmp /\ kw = NoKw

ConcSpec == ConcInit /\ [][Next]_vars

\* One statement of each kind, the SELECTs with a JOIN and with an ORDER BY
FairStmts ==
    { [kind |-> "CREATE", name |-> TblPosts, defs |-> DefsPosts],
      [kind |-> "DROP", name |-> TblUsers],
      [kind |-> "INSERT", name |-> TblUsers,
       cols |-> <<"i","d",","," ","n","m">>, vals |-> <<"3",","," ","'","c","'">>],
      [kind |-> "UPDATE", name |-> TblUsers,
       set |-> <<"n","m"," ","="," ","'","z","'">>, where |-> <<"i","d"," ",">","="," ","1">>],
      [kind |-> "DELETE", name |-> TblUsers, where |-> <<"i","d"," ",">","="," ","1">>],
      SelectStmt(TblUsers, <<"*">>, <<>>, <<>>, ColId, <<>>),
      SelectStmt(TblPosts, <<"*">>, JoinUsers, <<>>, <<>>, <<>>) }

FairNext == \E t \in Threads : Call(t, FairStmts) \/ Step(t)

\* Concurrent use under the Go scheduler: every goroutine makes one call, and a
\* goroutine that can take its next step eventually takes it
FairConcSpec ==
    ConcInit /\ [][FairNext]_vars /\ \A t \in Threads : WF_vars(Step(t))

\* evaluateWhere on its own: the row {id: val} against "id <op> <literal>", one
\* operator after the other
CmpVals == {0, 1, 2, 10}

\* Literals strconv.ParseFloat accepts, each with the number it parses to
CmpLits ==
    { [text |-> <<"1">>, num |-> 1],
      [text |-> <<"0","1">>, num |-> 1],
      [text |-> <<"+","1">>, num |-> 1],
      [text |-> <<"2">>, num |-> 2],
      [text |-> <<"1","0">>, num |-> 10],
      [text |-> <<"-","1">>, num |-> -1] }

CmpOps == {OP_EQ, OP_NE, OP_LT, OP_GT, OP_LE, OP_GE}

\* The WHERE clause "<col> <op> <literal>"
whereClauseOf(col, op, literal) == col \o <<" ">> \o op \o <<" ">> \o literal

evaluateWhere_Call(op) ==
    /\ op \notin cmp.done
    /\ cmp' = [cmp EXCEPT
                  !.done = @ \cup {op},
                  !.holds = IF evaluateWhere(ColId :> Int64(cmp.val),
                                             whereClauseOf(ColId, op, cmp.lit.text))
                            THEN @ \cup {op} ELSE @]
    /\ UNCHANGED <<Tables, tableObj, rowObj, mu, disk, pc, call, loc, ret, panicked,
                   ioFails, newRows, calls, sequential, pre, fresh, kw, view>>

WhereNext == \E op \in CmpOps : evaluateWhere_Call(op)

WhereInit ==
    /\ Init
    /\ sequential = TRUE
    /\ disk = NoFile
    /\ cmp \in [val : CmpVals, lit : CmpLits, done : {{}}, holds : {{}}]
    /\ kw = NoKw

WhereSpec == WhereInit /\ [][WhereNext]_vars

\* The parsers that look for keywords, each on its own: on a text as written,
\* keywords in upper case, and on the text with the case of some keywords
\* changed
LowerChar(c) ==
    LET at == {i \in 1..Len(Upper) : Upper[i] = c}
    IN  IF at = {} THEN c ELSE Lower[CHOOSE i \in at : TRUE]

\* strings.ToLower
ToLower(s) ==
    LET toLower[str \in Seq(STRING)] == [i \in 1..Len(str) |-> LowerChar(str[i])]
    IN  toLower[s]

\* The words with those at the places keys in lower case
changeCase(words, keys) ==
    [i \in 1..Len(words) |-> IF i \in keys THEN ToLower(words[i]) ELSE words[i]]

\* The text of the words, one space between two
RECURSIVE Unwords(_)
Unwords(words) ==
    IF Len(words) = 0 THEN <<>>
    ELSE IF Len(words) = 1 THEN words[1]
    ELSE words[1] \o <<" ">> \o Unwords(Tail(words))

\* Column definitions, a JOIN clause and LIKE conditions, with the places of
\* their keywords
KwTexts ==
    { [fn |-> "parseColumnDef", words |-> <<ColId, COLUMN_TYPE_INT, KW_NOT, COLUMN_CONSTRAINT_NULL>>,
       at |-> {3, 4}],
      [fn |-> "parseColumnDef", words |-> <<ColId, COLUMN_TYPE_INT, KW_PRIMARY, KW_KEY>>,
       at |-> {3, 4}],
      [fn |-> "parseColumnDef", words |-> <<ColId, COLUMN_TYPE_INT, COLUMN_CONSTRAINT_UNIQUE>>,
       at |-> {3}],
      [fn |-> "parseColumnDef",
       words |-> <<ColId, COLUMN_TYPE_INT, COLUMN_CONSTRAINT_AUTO_INCREMENT>>, at |-> {3}],
      [fn |-> "parseColumnDef",
       words |-> <<ColId, COLUMN_TYPE_INT, KW_PRIMARY, KW_KEY, COLUMN_CONSTRAINT_AUTO_INCREMENT>>,
       at |-> {3, 4, 5}],
      [fn |-> "parseColumnDef",
       words |-> <<ColNm, COLUMN_TYPE_VARCHAR, KW_NOT, COLUMN_CONSTRAINT_NULL,
                   COLUMN_CONSTRAINT_UNIQUE>>,
       at |-> {3, 4, 5}],
      [fn |-> "parseColumnDef",
       words |-> <<<<"u","i","d">>, COLUMN_TYPE_INT, KW_FOREIGN, KW_KEY, KW_REFERENCES,
                   <<"u","(","i","d",")">>>>,
       at |-> {3, 4, 5}],
      [fn |-> "parseJoinClause",
       words |-> <<KW_JOIN, TblUsers, KW_ON, <<"p",".","u","i","d">>, OP_EQ, <<"u",".","i","d">>>>,
       at |-> {1, 3}],
      [fn |-> "evaluateWhere", words |-> <<ColNm, OP_LIKE, <<"'","o","'">>>>, at |-> {2}],
      [fn |-> "evaluateWhere", words |-> <<ColNm, OP_LIKE, <<"'","x","'">>>>, at |-> {2}] }

\* The row {nm: "bob"} the LIKE conditions are evaluated on
LikeRow == ColNm :> Str(<<"b","o","b">>)

\* The text of the next call: first as written, then with the case changed
kwText == Unwords(IF kw.out = <<>> THEN kw.words ELSE changeCase(kw.words, kw.keys))

\* The call of parser fn returns r
kwReturns(fn, r) == kw.fn = fn /\ Len(kw.out) < 2 /\ kw' = [kw EXCEPT !.out = Append(@, r)]

parseColumnDef_Call ==
    /\ kwReturns("parseColumnDef", parseColumnDef(kwText))
    /\ UNCHANGED <<Tables, tableObj, rowObj, mu, disk, pc, call, loc, ret, panicked,
                   ioFails, newRows, calls, sequential, pre, fresh, cmp, view>>

parseJoinClause_Call ==
    /\ kwReturns("parseJoinClause", parseJoinClause(kwText))
    /\ UNCHANGED <<Tables, tableObj, rowObj, mu, disk, pc, call, loc, ret, panicked,
                   ioFails, newRows, calls, sequential, pre, fresh, cmp, view>>

evaluateWhere_Like ==
    /\ kwReturns("evaluateWhere", evaluateWhere(LikeRow, kwText))
    /\ UNCHANGED <<Tables, tableObj, rowObj, mu, disk, pc, call, loc, ret, panicked,
                   ioFails, newRows, calls, sequential, pre, fresh, cmp, view>>

KwNext == parseColumnDef_Call \/ parseJoinClause_Call \/ evaluateWhere_Like

KwInit ==
    /\ Init
    /\ sequential = TRUE
    /\ disk = NoFile
    /\ cmp = NoCmp
    /\ kw \in UNION {{[fn |-> x.fn, words |-> x.words, keys |-> k, out |-> <<>>] :
                         k \in SUBSET x.at} : x \in KwTexts}

KwSpec == KwInit /\ [][KwNext]_vars

(***************************************************************************)
(* The claims.                                                             *)
(***************************************************************************)
\* Every goroutine has made its call and the call has returned
AllReturned == \A t \in Threads : pc[t] = "idle" /\ call[t] # NoCall

\* The call of sequential use has returned
Returned == sequential /\ pc[MainThread] = "idle" /\ call[MainThread] # NoCall

Mutating == {"CREATE", "DROP", "INSERT", "UPDATE", "DELETE"}

\* The number of indices at which the sequence rows holds the row r
Count(rows, r) == Cardinality({i \in 1..Len(rows) : rows[i] = r})

\* The row the loop of Insert builds for statement s on a table with these columns
RowBuilt(tcolumns, s) == insertRow(tcolumns, insertColumns(s), insertValues(s), 1, <<>>)

Unconstrained(table) ==
    /\ table.PrimaryKey = <<>>
    /\ \A i \in 1..Len(table.Columns) :
           ~HasConstraint(table.Columns[i], COLUMN_CONSTRAINT_UNIQUE)

\* Every call was an INSERT into the users table, which the catalog held from
\* the start, and returned "1 row inserted"
AllInserted ==
    /\ AllReturned
    /\ TblUsers \in DOMAIN pre
    /\ \A t \in Threads : /\ call[t].kind = "INSERT"
                          /\ call[t].name = TblUsers
                          /\ ret[t] = Success(Msg("1 row inserted", <<>>, 0, <<>>))

\* C1: once N concurrent INSERTs into one table have all returned "1 row
\* inserted", the table holds its earlier rows and exactly one row per call: none
\* is lost, none is duplicated.  Stated for a table without PRIMARY KEY or UNIQUE
\* column, where addRow rejects no row.
C1_ConcurrentInsertsAllKept ==
    (AllInserted /\ Unconstrained(pre[TblUsers])) =>
        /\ TblUsers \in DOMAIN Tables
        /\ LET before == pre[TblUsers].Rows
               after == Catalog[TblUsers].Rows
               made == [t \in Threads |-> RowBuilt(pre[TblUsers].Columns, call[t]).v]
           IN  /\ Len(after) = Len(before) + NumThreads
               /\ \A i \in 1..Len(after) :
                      Count(after, after[i]) =
                          Count(before, after[i])
                          + Cardinality({t \in Threads : made[t] = after[i]})

\* The goroutines between the first catalog or table access of a mutating
\* statement and the end of its snapshot
InMutation ==
    {t \in Threads : pc[t] \in {"ct_cols", "ct_fk", "ct_put", "in_add", "in_append",
                                "dl_write", "up_set", "save", "sv_unlock"}}

\* C2: a mutating statement holds the write lock of db.mu from before its first
\* read of the catalog until its snapshot is written, so at most one mutating
\* statement is under way at any time.
C2_MutatorsHoldWriteLock ==
    /\ \A t \in InMutation : mu.writer = t
    /\ Cardinality(InMutation) <= 1

\* Select run alone, from start to end, on the catalog value cat
RECURSIVE selectScan(_, _, _, _)
selectScan(s, rows, i, results) ==
    IF i > Len(rows) THEN selectResult(results)
    ELSE LET r == selectRow(s, rows[i], results)
         IN  IF r.go = "error" THEN Failure("column not found")
             ELSE IF r.go = "break" THEN selectResult(r.results)
             ELSE selectScan(s, rows, i + 1, r.results)

SelectOn(cat, s) ==
    IF s.name \notin DOMAIN cat THEN Failure("table does not exist")
    ELSE selectScan(s, cat[s.name].Rows, 1, <<>>)

\* C3: a SELECT that runs concurrently with one UPDATE or DELETE on the same
\* table returns what it returns on the table as it was before the mutating
\* statement, or as it is after it.  Stated for a SELECT without JOIN and
\* ORDER BY and a mutating statement that succeeds, which changes the table at
\* once or not at all when it runs alone.
C3_SelectSeesBeforeOrAfter ==
    \A t1, t2 \in Threads :
        ( /\ AllReturned
          /\ Threads = {t1, t2}
          /\ call[t1].kind = "SELECT"
          /\ call[t2].kind \in {"UPDATE", "DELETE"}
          /\ ret[t2].err = "nil"
          /\ call[t1].join = <<>>
          /\ call[t1].order = <<>>
          /\ call[t1].name = call[t2].name )
        => ret[t1] \in {SelectOn(pre, call[t1]), SelectOn(Catalog, call[t1])}

\* The ids of the rows of a table, in row order; 0 stands for a row without id
IdsOf(rows) == [i \in 1..Len(rows) |-> IF HasKey(rows[i], ColId) THEN rows[i][ColId].v ELSE 0]

\* C4: when every goroutine INSERTs a row without id, the rows differing in
\* their other column, into an empty table whose id is PRIMARY KEY
\* AUTO_INCREMENT, the N rows get the ids 1..N, each once.
C4_ConcurrentAutoIncrement ==
    ( /\ AllInserted
      /\ AutoKeyed(pre[TblUsers])
      /\ pre[TblUsers].Rows = <<>>
      /\ \A t \in Threads : ~HasKey(RowBuilt(pre[TblUsers].Columns, call[t]).v, ColId)
      /\ \A t1, t2 \in Threads : t1 # t2 => call[t1] # call[t2] )
    => /\ TblUsers \in DOMAIN Tables
       /\ LET ids == IdsOf(Catalog[TblUsers].Rows)
          IN  /\ Len(ids) = NumThreads
              /\ \A k \in 1..NumThreads : Cardinality({i \in 1..Len(ids) : ids[i] = k}) = 1

InsertViolates(cat, s) ==
    /\ s.kind = "INSERT"
    /\ s.name \in DOMAIN cat
    /\ Len(insertColumns(s)) = Len(insertValues(s))
    /\ RowBuilt(cat[s.name].Columns, s).ok
    /\ ~addRowCheck(cat[s.name], cat[s.name].Rows, RowBuilt(cat[s.name].Columns, s).v).ok

\* C6: an INSERT whose row violates a constraint of the table returns an error,
\* not "1 row inserted", and leaves the catalog as it was.
C6_ViolatingInsertFails ==
    (Returned /\ InsertViolates(pre, call[MainThread])) =>
        /\ ret[MainThread].err # "nil"
        /\ Catalog = pre

UpdateErrors ==
    {"invalid set clause", "invalid column type", "invalid integer value for column type"}

\* C7: an UPDATE that returns an error for an assignment of its SET list leaves
\* every row as it was.
C7_FailedUpdateChangesNothing ==
    ( /\ Returned
      /\ call[MainThread].kind = "UPDATE"
      /\ ret[MainThread].err \in UpdateErrors )
    => Catalog = pre

\* C8: a mutating statement whose snapshot fails returns the I/O error and
\* leaves the catalog in memory as it was before the statement.
C8_FailedSnapshotChangesNothing ==
    ( /\ Returned
      /\ call[MainThread].kind \in Mutating
      /\ ret[MainThread].err = "io" )
    => Catalog = pre

\* C9: in sequential use, once a mutating statement has returned a success
\* status, the file holds the whole catalog that is in memory.
C9_SnapshotEqualsCatalog ==
    ( /\ Returned
      /\ call[MainThread].kind \in Mutating
      /\ ret[MainThread].err = "nil" )
    => disk = GoodFile(Catalog)

\* C9 witness: a successful DELETE on a table that keeps a row
C9_Witness ==
    /\ Returned
    /\ call[MainThread].kind = "DELETE"
    /\ ret[MainThread].err = "nil"
    /\ ret[MainThread].msg.n = 1
    /\ Catalog # pre

\* The call that has returned is a successful UPDATE with one assignment
UpdatedOne ==
    /\ Returned
    /\ call[MainThread].kind = "UPDATE"
    /\ ret[MainThread].err = "nil"
    /\ Len(Split(call[MainThread].set, <<",">>)) = 1

\* C10: after a successful UPDATE t SET c = v WHERE p, the rows that satisfied p
\* hold coerce(type(c), v) in c and are otherwise as before, the other rows are
\* as before, in the same number and order, and the status counts the rows that
\* satisfied p.
C10_UpdateEffect ==
    UpdatedOne =>
        LET s == call[MainThread]
            before == pre[s.name].Rows
            after == Catalog[s.name].Rows
            parts == Split(s.set, <<"=">>)
            c == TrimSpace(parts[1])
            v == columnTypeConversion(updateColType(pre[s.name].Columns, c),
                                      TrimSpace(parts[2])).v
            hit == {i \in 1..Len(before) : evaluateWhere(before[i], s.where)}
        IN  /\ Len(after) = Len(before)
            /\ \A i \in 1..Len(before) :
                   after[i] = IF i \in hit THEN (c :> v) @@ before[i] ELSE before[i]
            /\ ret[MainThread].msg = Msg("rows updated", <<>>, Cardinality(hit), <<>>)

\* C10 witness: an UPDATE changed one of two rows
C10_Witness ==
    /\ UpdatedOne
    /\ ret[MainThread].msg.n = 1
    /\ Len(Catalog[call[MainThread].name].Rows) = 2
    /\ Catalog # pre

\* The call that has returned is a successful DELETE
Deleted ==
    /\ Returned
    /\ call[MainThread].kind = "DELETE"
    /\ ret[MainThread].err = "nil"

\* The rows of a sequence that do not satisfy the WHERE clause, in order
RECURSIVE Rejected(_, _)
Rejected(rows, where) ==
    IF rows = <<>> THEN <<>>
    ELSE (IF evaluateWhere(Head(rows), where) THEN <<>> ELSE <<Head(rows)>>)
         \o Rejected(Tail(rows), where)

\* SELECT * FROM name WHERE where
SelectStar(name, where) == SelectStmt(name, <<"*">>, <<>>, where, <<>>, <<>>)

\* C11: after a successful DELETE FROM t WHERE p with a non-empty p, the table
\* holds the rows that did not satisfy p, in their order, and SELECT * FROM t
\* WHERE p, run next, returns "no results found".
C11_DeleteRemovesAccepted ==
    (Deleted /\ call[MainThread].where # <<>>) =>
        LET s == call[MainThread]
        IN  /\ Catalog[s.name].Rows = Rejected(pre[s.name].Rows, s.where)
            /\ SelectOn(Catalog, SelectStar(s.name, s.where)) = Failure("no results found")

\* C11 witness: a DELETE with a WHERE clause removed one of two rows
C11_Witness ==
    /\ Deleted
    /\ call[MainThread].where # <<>>
    /\ Len(pre[call[MainThread].name].Rows) = 2
    /\ Len(Catalog[call[MainThread].name].Rows) = 1

\* C12: the status of a successful DELETE is "<k> rows deleted" with k the
\* number of rows the table holds after the statement.
C12_DeleteCountsRowsLeft ==
    Deleted =>
        ret[MainThread].msg =
            Msg("rows deleted", <<>>, Len(Catalog[call[MainThread].name].Rows), <<>>)

\* C12 witness: a DELETE removed both rows of a table and reported 0
C12_Witness ==
    /\ Deleted
    /\ Len(pre[call[MainThread].name].Rows) = 2
    /\ Catalog[call[MainThread].name].Rows = <<>>
    /\ ret[MainThread].msg.n = 0

\* C13: DELETE FROM t without WHERE clause on a non-empty table removes no row:
\* the rows are the same in the same order, and the count is their number.
C13_DeleteWithoutWhereKeepsAll ==
    (Deleted /\ call[MainThread].where = <<>>) =>
        LET s == call[MainThread]
        IN  /\ pre[s.name].Rows # <<>>
            /\ Catalog[s.name].Rows = pre[s.name].Rows
            /\ ret[MainThread].msg = Msg("rows deleted", <<>>, Len(pre[s.name].Rows), <<>>)

\* C13 witness: a DELETE without WHERE clause on a table of two rows reported 2
C13_Witness ==
    /\ Deleted
    /\ call[MainThread].where = <<>>
    /\ Len(Catalog[call[MainThread].name].Rows) = 2
    /\ ret[MainThread].msg.n = 2

\* The rows of a table that satisfy a WHERE clause, in their order
RECURSIVE Accepted(_, _)
Accepted(rows, where) ==
    IF rows = <<>> THEN <<>>
    ELSE (IF where = <<>> \/ evaluateWhere(Head(rows), where) THEN <<Head(rows)>> ELSE <<>>)
         \o Accepted(Tail(rows), where)

\* The projections of rows on a column list
Projected(rows, cols) ==
    [i \in 1..Len(rows) |-> project(rows[i], Split(cols, <<",">>), 1, <<>>).v]

FirstN(rows, n) == SubSeq(rows, 1, IF Len(rows) < n THEN Len(rows) ELSE n)

\* The call of sequential use was a SELECT and returned rows
Selected ==
    /\ Returned
    /\ call[MainThread].kind = "SELECT"
    /\ ret[MainThread].err = "nil"

\* C14: a successful SELECT with LIMIT n, n >= 0, with or without JOIN, returns
\* at most n rows; when n > 0 (stated without JOIN and ORDER BY) they are the
\* first n accepted rows in scan order.
C14_LimitBoundsRows ==
    (Selected /\ call[MainThread].limit # <<>>) =>
        LET s == call[MainThread]
            n == parseLimitClause(s.limit)
            rows == ret[MainThread].msg.rows
        IN  /\ Len(rows) <= n
            /\ (n > 0 /\ s.join = <<>> /\ s.order = <<>>) =>
                   rows = FirstN(Projected(Accepted(pre[s.name].Rows, s.where), s.cols), n)

\* C15: SELECT ... ORDER BY c LIMIT n with n > 0 truncates before it orders: the
\* rows returned are the first n accepted rows in scan order, each once, and
\* they are in non-decreasing order of c; a row accepted after them does not
\* appear.  Stated without JOIN, for an INT column c in ascending direction.
C15_TruncationPrecedesOrdering ==
    ( /\ Selected
      /\ call[MainThread].order # <<>>
      /\ call[MainThread].limit # <<>>
      /\ call[MainThread].join = <<>>
      /\ parseLimitClause(call[MainThread].limit) > 0 ) =>
        LET s == call[MainThread]
            c == parseOrderByClause(s.order).v.col
            rows == ret[MainThread].msg.rows
            prefix == FirstN(Projected(Accepted(pre[s.name].Rows, s.where), s.cols),
                             parseLimitClause(s.limit))
        IN  /\ Len(rows) = Len(prefix)
            /\ \A i \in 1..Len(rows) : Count(rows, rows[i]) = Count(prefix, rows[i])
            /\ \A i, j \in 1..Len(rows) :
                   (i < j /\ HasKey(rows[i], c) /\ HasKey(rows[j], c)) =>
                       rows[i][c].v <= rows[j][c].v

\* C15 witness: ORDER BY id LIMIT 2 on three rows stored in descending id
\* returned the first two, sorted, without the row of the least id
C15_Witness ==
    /\ Selected
    /\ call[MainThread].order = ColId
    /\ call[MainThread].limit = <<"2">>
    /\ IdsOf(pre[call[MainThread].name].Rows) = <<3, 2, 1>>
    /\ IdsOf(ret[MainThread].msg.rows) = <<2, 3>>

\* C16: a successful SELECT on t with ORDER BY c in ascending direction, c a
\* column of t of which every stored row holds a value of the column's type,
\* returns the accepted rows in non-decreasing order of c, rows of equal c in
\* insertion order, whatever the projection list is.  Stated without JOIN and
\* LIMIT.
C16_OrderByWhateverProjection ==
    ( /\ Selected
      /\ call[MainThread].order # <<>>
      /\ call[MainThread].limit = <<>>
      /\ call[MainThread].join = <<>>
      /\ parseOrderByClause(call[MainThread].order).v.dir = DIR_ASC
      /\ columnExists(pre[call[MainThread].name],
                      parseOrderByClause(call[MainThread].order).v.col)
      /\ \A i \in 1..Len(pre[call[MainThread].name].Rows) :
             sortable(pre[call[MainThread].name].Rows[i],
                      GetColumn(pre[call[MainThread].name],
                                parseOrderByClause(call[MainThread].order).v.col)) ) =>
        LET s == call[MainThread]
            c == GetColumn(pre[s.name], parseOrderByClause(s.order).v.col)
        IN  ret[MainThread].msg.rows =
                Projected(sortRows(Accepted(pre[s.name].Rows, s.where), c, DIR_ASC), s.cols)

\* C17: for a row value that is an integer and a literal that parses as a
\* number, each of =, !=, <, >, <=, >= returns the numeric comparison of the two
\* numbers: exactly one of <, =, > holds, <= holds iff < or = holds, and !=
\* holds iff = does not.
C17_NumericComparison ==
    cmp.done = CmpOps =>
        /\ (OP_EQ \in cmp.holds) = (cmp.val = cmp.lit.num)
        /\ (OP_NE \in cmp.holds) = (cmp.val # cmp.lit.num)
        /\ (OP_LT \in cmp.holds) = (cmp.val < cmp.lit.num)
        /\ (OP_GT \in cmp.holds) = (cmp.val > cmp.lit.num)
        /\ (OP_LE \in cmp.holds) = (cmp.val <= cmp.lit.num)
        /\ (OP_GE \in cmp.holds) = (cmp.val >= cmp.lit.num)
        /\ Cardinality(cmp.holds \cap {OP_LT, OP_EQ, OP_GT}) = 1
        /\ (OP_LE \in cmp.holds) = (OP_LT \in cmp.holds \/ OP_EQ \in cmp.holds)
        /\ (OP_NE \in cmp.holds) = (OP_EQ \notin cmp.holds)

\* The pairs (main row, join row) of a JOIN in main-row-major order, as indices
JoinPairs(m, j) ==
    [k \in 1..(Len(m) * Len(j)) |-> <<((k - 1) \div Len(j)) + 1, ((k - 1) % Len(j)) + 1>>]

\* The row a JOIN is to output for one pair: under each name of the column
\* list, * standing for every column of either table, the join row's value
\* for a column of the join table, else the main row's; under table.column the
\* value of the row of that table
ExpectedJoinRow(s, mrow, jrow) ==
    LET list == Split(s.cols, <<",">>)
        names == {TrimSpace(list[i]) : i \in 1..Len(list)}
        keys == UNION {IF c = <<"*">> THEN DOMAIN mrow \cup DOMAIN jrow ELSE {c} : c \in names}
    IN  [c \in keys |->
            IF c \in DOMAIN jrow THEN jrow[c]
            ELSE IF c \in DOMAIN mrow THEN mrow[c]
            ELSE IF Split(c, <<".">>)[1] = s.name THEN mrow[Split(c, <<".">>)[2]]
            ELSE jrow[Split(c, <<".">>)[2]]]

\* The row of the pair on which WHERE is evaluated
JoinedRow(mrow, jrow) ==
    [c \in DOMAIN mrow \cup DOMAIN jrow |-> IF c \in DOMAIN jrow THEN jrow[c] ELSE mrow[c]]

\* Every row of the main table holds the left ON column and every row of the
\* join table the right one
OnColumnsHeld(s) ==
    LET jc == parseJoinClause(s.join).v
        on == parseJoinCondition(jc.cond).v
    IN  /\ \A i \in 1..Len(pre[s.name].Rows) : on.left \in DOMAIN pre[s.name].Rows[i]
        /\ \A i \in 1..Len(pre[jc.table].Rows) : on.right \in DOMAIN pre[jc.table].Rows[i]

\* C18: SELECT ... FROM m JOIN j ON m.L = j.R returns, in main-row-major then
\* join-row order, one row per pair with main_row[L] = join_row[R] that passes
\* WHERE on the combined row, in which a column of both tables carries the
\* join table's value; a projected m.col or j.col is output under that name
\* with the value of the row of the named table.  Stated for tables whose rows
\* hold the ON columns, without ORDER BY; with LIMIT n, n > 0, for the first n
\* such pairs.
C18_JoinResult ==
    ( /\ Selected
      /\ call[MainThread].join # <<>>
      /\ call[MainThread].order = <<>>
      /\ call[MainThread].limit # <<>> => parseLimitClause(call[MainThread].limit) > 0
      /\ OnColumnsHeld(call[MainThread]) ) =>
        LET s == call[MainThread]
            jc == parseJoinClause(s.join).v
            on == parseJoinCondition(jc.cond).v
            m == pre[s.name].Rows
            j == pre[jc.table].Rows
            pairs == JoinPairs(m, j)
            matching == {k \in DOMAIN pairs :
                            /\ on.left \in DOMAIN m[pairs[k][1]]
                            /\ on.right \in DOMAIN j[pairs[k][2]]
                            /\ m[pairs[k][1]][on.left] = j[pairs[k][2]][on.right]
                            /\ \/ s.where = <<>>
                               \/ evaluateWhere(JoinedRow(m[pairs[k][1]], j[pairs[k][2]]),
                                                s.where)}
            nth(n) == CHOOSE k \in matching : Cardinality({h \in matching : h < k}) = n - 1
            rows == ret[MainThread].msg.rows
        IN  /\ Len(rows) = IF s.limit # <<>> /\ parseLimitClause(s.limit) < Cardinality(matching)
                           THEN parseLimitClause(s.limit) ELSE Cardinality(matching)
            /\ \A n \in 1..Len(rows) :
                   rows[n] = ExpectedJoinRow(s, m[pairs[nth(n)][1]], j[pairs[nth(n)][2]])

\* C18 witness: SELECT * with JOIN returned two rows, the first with the id of
\* the join row, which differs from the id of the first main row
C18_Witness ==
    /\ Selected
    /\ call[MainThread].join # <<>>
    /\ call[MainThread].cols = <<"*">>
    /\ Len(ret[MainThread].msg.rows) = 2
    /\ pre[call[MainThread].name].Rows[1][ColId] = Int64(1)
    /\ ret[MainThread].msg.rows[1][ColId] = Int64(2)

\* The call of sequential use was a CREATE TABLE and has returned
Created ==
    /\ Returned
    /\ call[MainThread].kind = "CREATE"

\* C19: CREATE TABLE n when the catalog holds a table named n returns an error,
\* and that table, with its columns and rows, and every other table are
\* unchanged.
C19_CreateExistingFails ==
    (Created /\ call[MainThread].name \in DOMAIN pre) =>
        /\ ret[MainThread] = Failure("table already exists")
        /\ Catalog = pre

\* C19 witness: CREATE TABLE on the name of a table of two rows has returned
C19_Witness ==
    /\ Created
    /\ call[MainThread].name \in DOMAIN pre
    /\ Len(pre[call[MainThread].name].Rows) = 2

\* The columns of a CREATE TABLE statement that carry a FOREIGN KEY reference
\* to a table the catalog value cat does not hold
UnknownReferences(s, cat) ==
    LET defs == Split(s.defs, <<",">>)
    IN  {i \in 1..Len(defs) :
            LET r == parseColumnDef(TrimSpace(defs[i]))
            IN  /\ r.ok
                /\ HasConstraint(r.v, COLUMN_CONSTRAINT_FOREIGN_KEY)
                /\ r.v.ReferenceTable \notin DOMAIN cat}

\* C20: CREATE TABLE succeeds only if every FOREIGN KEY reference of its columns
\* names a table the catalog holds at that time, the table being created and
\* the empty table name counting as unknown; otherwise it returns an error and
\* registers no table, whichever column carries the reference.
C20_UnknownReferenceFails ==
    ( /\ Created
      /\ call[MainThread].name \notin DOMAIN pre
      /\ UnknownReferences(call[MainThread], pre) # {} ) =>
        /\ ret[MainThread].err # "nil"
        /\ Catalog = pre

\* C28: in every catalog state, every column that carries a FOREIGN KEY
\* constraint references a table the catalog holds, after any sequence of
\* CREATE TABLE and DROP TABLE statements.
C28_ReferencedTablePresent ==
    sequential =>
        \A n \in DOMAIN Catalog :
            \A i \in 1..Len(Catalog[n].Columns) :
                HasConstraint(Catalog[n].Columns[i], COLUMN_CONSTRAINT_FOREIGN_KEY) =>
                    Catalog[n].Columns[i].ReferenceTable \in DOMAIN Catalog

\* The call of sequential use was a DROP TABLE and has returned
Dropped ==
    /\ Returned
    /\ call[MainThread].kind = "DROP"

\* C22: DROP TABLE n returns "Table n dropped" unless the snapshot fails,
\* whether or not the catalog held n; afterwards the catalog does not hold n
\* and every other table is as it was.
C22_DropAlwaysSucceeds ==
    Dropped =>
        LET n == call[MainThread].name
        IN  /\ \/ ret[MainThread] = Success(Msg("Table dropped", n, 0, <<>>))
               \/ ret[MainThread] = Failure("io")
            /\ n \notin DOMAIN Catalog
            /\ DOMAIN Catalog = DOMAIN pre \ {n}
            /\ \A m \in DOMAIN Catalog : Catalog[m] = pre[m]

\* C22 witness: DROP TABLE of a name the catalog did not hold, beside a table
\* it held, returned its status
C22_Witness ==
    /\ Dropped
    /\ ret[MainThread] = Success(Msg("Table dropped", call[MainThread].name, 0, <<>>))
    /\ call[MainThread].name \notin DOMAIN pre
    /\ DOMAIN pre # {}

\* C29: an INSERT INTO t VALUES (...) without column list, t a table of the
\* catalog, inserts no row: it returns "column count does not match value
\* count" and the catalog is as it was.
C29_InsertWithoutColumnsFails ==
    ( /\ Returned
      /\ call[MainThread].kind = "INSERT"
      /\ call[MainThread].cols = <<>>
      /\ call[MainThread].name \in DOMAIN pre ) =>
        /\ ret[MainThread] = Failure("column count does not match value count")
        /\ Catalog = pre

\* C29 witness: such an INSERT into a table of two rows has returned
C29_Witness ==
    /\ Returned
    /\ call[MainThread].kind = "INSERT"
    /\ call[MainThread].cols = <<>>
    /\ call[MainThread].name \in DOMAIN pre
    /\ Len(pre[call[MainThread].name].Rows) = 2
    /\ ret[MainThread].err # "nil"

\* The columns of a table in which no two rows may agree: the primary key and
\* the UNIQUE columns
KeyColumns(table) ==
    {table.Columns[i].Name : i \in {k \in 1..Len(table.Columns) :
        \/ HasConstraint(table.Columns[k], COLUMN_CONSTRAINT_PRIMARY_KEY)
        \/ HasConstraint(table.Columns[k], COLUMN_CONSTRAINT_UNIQUE)}}

\* C27: in every state of a table that declares a primary key or a UNIQUE
\* column, no two rows hold the same value in that column, after any sequential
\* mix of INSERT, UPDATE and DELETE statements.
C27_KeysStayUnique ==
    sequential =>
        \A n \in DOMAIN Catalog :
            \A c \in KeyColumns(Catalog[n]) :
                \A i, j \in 1..Len(Catalog[n].Rows) :
                    ( /\ i # j
                      /\ HasKey(Catalog[n].Rows[i], c)
                      /\ HasKey(Catalog[n].Rows[j], c) ) =>
                        Catalog[n].Rows[i][c] # Catalog[n].Rows[j][c]

\* C30: a JOIN pairs a main row with a join row only when the main row holds
\* the left ON column, the join row holds the right ON column and the two
\* values are equal: the rows returned are no more than such pairs.
C30_JoinNeedsBothColumns ==
    (Selected /\ call[MainThread].join # <<>>) =>
        LET s == call[MainThread]
            jc == parseJoinClause(s.join).v
            on == parseJoinCondition(jc.cond).v
            m == pre[s.name].Rows
            j == pre[jc.table].Rows
        IN  Len(ret[MainThread].msg.rows) <=
                Cardinality({pr \in (1..Len(m)) \X (1..Len(j)) :
                                /\ on.left \in DOMAIN m[pr[1]]
                                /\ on.right \in DOMAIN j[pr[2]]
                                /\ m[pr[1]][on.left] = j[pr[2]][on.right]})

\* The columns of a table that carry a constraint
Carrying(table, constraint) ==
    {i \in 1..Len(table.Columns) : HasConstraint(table.Columns[i], constraint)}

\* C21: in every catalog state, every table has at most one column carrying
\* PRIMARY KEY and at most one carrying AUTO_INCREMENT, whatever CREATE TABLE
\* statements were accepted.
C21_OneKeyColumn ==
    \A n \in DOMAIN Catalog :
        /\ Cardinality(Carrying(Catalog[n], COLUMN_CONSTRAINT_PRIMARY_KEY)) <= 1
        /\ Cardinality(Carrying(Catalog[n], COLUMN_CONSTRAINT_AUTO_INCREMENT)) <= 1

\* C25: when two goroutines execute CREATE TABLE with one name the catalog does
\* not hold, exactly one call returns "Table <n> created" and the other returns
\* the error that the table already exists; the table that stays is the one
\* the successful call made.  Stated for calls that return their status or
\* that error: neither fails on its column definitions or on its snapshot.
C25_OneCreateWins ==
    \A t1, t2 \in Threads :
        ( /\ AllReturned
          /\ Threads = {t1, t2}
          /\ t1 # t2
          /\ call[t1].kind = "CREATE"
          /\ call[t2].kind = "CREATE"
          /\ call[t1].name = call[t2].name
          /\ call[t1].name \notin DOMAIN pre
          /\ ret[t1].err = "nil"
          /\ ret[t2].err \in {"nil", "table already exists"} ) =>
            /\ ret[t1].msg = Msg("Table created", call[t1].name, 0, <<>>)
            /\ ret[t2] = Failure("table already exists")
            /\ call[t1].name \in DOMAIN Catalog
            /\ Catalog[call[t1].name] = StoredTable(call[t1].name, call[t1].defs, <<>>)

\* C23: the map AllTables returned is a snapshot: its table names and the
\* columns and rows of its tables stay what they were when the call returned,
\* whatever mutating statements are executed afterwards.
C23_AllTablesIsSnapshot ==
    (sequential /\ view.ref # "none") => mapOf(view.ref) = view.then

\* C26: no call deadlocks: under any interleaving of concurrent Execute and
\* AllTables calls with fair scheduling, every call that has begun eventually
\* returns.
C26_EveryCallReturns ==
    \A t \in Threads : (pc[t] # "idle") ~> (pc[t] = "idle")

\* C24: SQL keywords are case-insensitive: changing the letter case of a keyword
\* of a column definition (NOT NULL, PRIMARY KEY, FOREIGN KEY REFERENCES,
\* UNIQUE, AUTO_INCREMENT), of JOIN and ON, or of LIKE does not change what the
\* parser returns, hence not the outcome of the statement.
C24_KeywordCaseChangesNothing == Len(kw.out) = 2 => kw.out[1] = kw.out[2]

\* The locks alone stop no call: every call that has begun eventually returns,
\* unless the index-out-of-range panic of Update ends the process.
C26_EveryCallReturnsOrPanic ==
    \A t \in Threads : (pc[t] # "idle") ~> (pc[t] = "idle" \/ panicked)

====
